---- MODULE Spec2Model ----
(***************************************************************************)
(* Model of the notification centre: the caching/retrying gateway          *)
(* NotificationService (notificationsservice.ts) and the signal-based      *)
(* store/controller NotificationsComponent together with its view dialog   *)
(* NotificationViewDialog.                                                 *)
(*                                                                         *)
(* Four specifications share the definitions below.                        *)
(*   GwSpec : the gateway alone, one call at a time, with the clock, the   *)
(*            retry loop and the error classification in full.             *)
(*   Spec   : the controller with its store, its view dialog and the       *)
(*            requests it has in flight; a list request's retry loop is    *)
(*            taken as one exchange whose outcome is what the gateway's    *)
(*            pipeline finally emits.                                      *)
(*   LifeSpec : the life of the component (ngOnInit, dropdown, interval,   *)
(*            ngOnDestroy) and its refreshes, with the clock.              *)
(*   LiveSpec : the refreshes with the fairness of the event loop (every   *)
(*            response or timeout of a request in flight is delivered).    *)
(* Times are milliseconds, as Date.now() and the rxjs timers count them.   *)
(***************************************************************************)
EXTENDS Integers, Sequences, FiniteSets, TLC

VARIABLES
    (* environment *)
    server,             \* the server-side notifications: id -> "absent" | "unread" | "read"
    now,                \* Date.now()
    (* NotificationService *)
    notificationCache,  \* notificationCacheSubject.value
    lastFetchTime,      \* lastFetchTime
    notificationCount,  \* notificationCountSubject.value
    localToken,         \* localStorage holds 'token'
    sessionToken,       \* sessionStorage holds 'token'
    call,               \* the gateway call in progress (GwSpec)
    last,               \* what the last completed gateway call did and delivered (GwSpec)
    fetched,            \* the last list response taken from the network (GwSpec)
    (* NotificationsComponent *)
    notificationState,  \* the signal notificationState (lastFetch, never read, is left out)
    isShow,             \* the signal isShow
    stage,              \* "constructed" | "active" (after ngOnInit) | "destroyed"
    nextTick,           \* when interval(REFRESH_INTERVAL) emits next
    pending,            \* the requests of the component in flight, oldest first
    dialog,             \* the NotificationViewDialog that is open
    issued,             \* how many requests the component has issued
    event               \* what the last step did to the store (history)

gwVars == <<notificationCache, lastFetchTime, notificationCount>>
tokenVars == <<localToken, sessionToken>>
callVars == <<call, last, fetched>>
ctlVars == <<notificationState, isShow, stage, nextTick, pending, dialog, issued, event>>
vars == <<server, now, notificationCache, lastFetchTime, notificationCount,
          localToken, sessionToken, call, last, fetched,
          notificationState, isShow, stage, nextTick, pending, dialog, issued, event>>

----------------------------------------------------------------------------
(* Bounds of the model *)

\* the notifications the server may hold are numbered 1..NumIds
NumIds == 4
\* StoreSpec starts from the lists of the notifications 1..NumStore
NumStore == 3
\* the calls of GwSpec are about the notifications 1..NumGw
NumGw == 2
\* the clock of GwSpec is followed from StartNow for GwHorizon milliseconds
GwHorizon == 30000
\* the unread counter of the service is not driven past MaxCount by markUnread
MaxCount == 2

\* the component issues at most MaxRequests requests
MaxRequests == 2
\* while the component runs the server holds notifications 1..NumLive only
NumLive == 1
\* the clock of Spec is followed from StartNow for SpecHorizon milliseconds
SpecHorizon == 30000

(* Program constants *)
REFRESH_INTERVAL == 30000
MAX_NOTIFICATIONS == 50
timeout == 10000
maxRetries == 3
cacheTimeout == 30000
allocateRetries == 2

Min(a, b) == IF a < b THEN a ELSE b
Max(a, b) == IF a > b THEN a ELSE b

Ids == 1 .. NumIds
GwIds == 1 .. NumGw
StoreIds == 1 .. NumStore
LiveIds == 1 .. NumLive
\* JavaScript's undefined where a number is expected (error.status of a TimeoutError)
Undefined == 0 - 1
\* Date.now() when the service is constructed: far more than cacheTimeout after the epoch
StartNow == 4 * cacheTimeout


----------------------------------------------------------------------------
(* The server and its payloads *)

\* the date of notification i: the server lists oldest first
DateOf(i) == 10 * i

\* the message of notification i: a new ticket, a payment, a ticket update, a
\* support request
MessageOf(i) ==
    IF i % 4 = 1 THEN "New ticket {7}"
    ELSE IF i % 4 = 2 THEN "Payment due"
    ELSE IF i % 4 = 3 THEN "Ticket update"
    ELSE "Support request {7}"

\* tickets?.id of notification i (0: no ticket attached)
TicketOf(i) == IF i % 4 \in {0, 1} THEN 7 ELSE 0

Item(i, r) ==
    [id |-> i, read |-> r, date |-> DateOf(i), message |-> MessageOf(i),
     tickets |-> TicketOf(i)]

RECURSIVE ServerListFrom(_, _)
ServerListFrom(s, i) ==
    IF i > NumIds THEN <<>>
    ELSE IF s[i] = "absent" THEN ServerListFrom(s, i + 1)
    ELSE <<Item(i, s[i] = "read")>> \o ServerListFrom(s, i + 1)

\* GET notification/all: responseData of the server's answer
ServerList(s) == ServerListFrom(s, 1)

IsUnread(n) == ~n.read

\* data.filter(n => !n.read).length
UnreadIn(seq) == Len(SelectSeq(seq, IsUnread))

\* the answers GET notification/all may give while the server holds s: the list, a
\* success flag and an unreadCount field (0 stands for a field that is absent or 0)
\* NumGw stands for a count of the server's own, which need not be that of the page
CountFields == {0, NumGw}

ListResponses(s) ==
    { [success |-> ok, responseData |-> ServerList(s), unreadCount |-> c] :
        ok \in BOOLEAN, c \in CountFields }

\* the failures of one network attempt: an HTTP status, rxjs' TimeoutError (no
\* status, no error field) and a client-side ErrorEvent
HttpError(st) == [kind |-> "http", status |-> st]
TimeoutError == [kind |-> "timeout", status |-> Undefined]
ClientError == [kind |-> "client", status |-> 0]
AttemptErrors == {HttpError(401), HttpError(503), ClientError}

----------------------------------------------------------------------------
(* NotificationService: helpers *)

\* a cache that would still answer at the age of exactly cacheTimeout
shouldUseCacheLoose(t, lft) == (t - lft) <= cacheTimeout

\* shouldUseCache(), lines 394-397, at time t with lastFetchTime lft
shouldUseCache(t, lft) == (t - lft) < cacheTimeout

\* getAllNotifications, lines 81-90, at time t with the cache and lastFetchTime
\* given: the call is answered from the cache
CacheAnswersIn(cache, lft, t, filter) ==
    /\ shouldUseCache(t, lft)
    /\ ~filter
    /\ Len(cache) > 0

CacheAnswers(filter) == CacheAnswersIn(notificationCache, lastFetchTime, now, filter)

CachedResponse ==
    [success |-> TRUE, responseData |-> notificationCache,
     unreadCount |-> UnreadIn(notificationCache)]

\* a retry that would wait one second every time
RetryDelayFlat(op, retryCount) == IF op = "list" THEN 1000 ELSE 0

\* the delay before retry number retryCount (1, 2, ...): timer(retryCount * 1000)
\* for the list call, none for retry(2) of allocateTicketToAgent
RetryDelay(op, retryCount) == IF op = "list" THEN retryCount * 1000 ELSE 0

\* a service whose every pipeline would carry the retry(2) of allocateTicketToAgent
RetriesOfEvery(op) == IF op = "list" THEN maxRetries ELSE allocateRetries

\* how often the pipeline of op resubscribes after a failed attempt
RetriesOf(op) ==
    IF op = "list" THEN maxRetries
    ELSE IF op = "allocateTicket" THEN allocateRetries
    ELSE 0

\* a handleError whose switch would have the default case only
ErrorCodeUnnamed(e) ==
    IF e.kind = "client" THEN "CLIENT_ERROR" ELSE "HTTP_" \o ToString(e.status)

\* handleError: the code of the structured error
ErrorCode(e) ==
    IF e.kind = "client" THEN "CLIENT_ERROR"
    ELSE CASE e.status = 400 -> "BAD_REQUEST"
           [] e.status = 401 -> "UNAUTHORIZED"
           [] e.status = 403 -> "FORBIDDEN"
           [] e.status = 404 -> "NOT_FOUND"
           [] e.status = 408 -> "TIMEOUT"
           [] e.status = 429 -> "RATE_LIMIT"
           [] e.status = 500 -> "SERVER_ERROR"
           [] e.status = 502 -> "BAD_GATEWAY"
           [] e.status = 503 -> "SERVICE_UNAVAILABLE"
           [] e.status = 504 -> "GATEWAY_TIMEOUT"
           [] e.status = Undefined -> "HTTP_undefined"
           [] OTHER -> "HTTP_" \o ToString(e.status)

\* handleError: the structured error thrown to the caller
handleError(e) == [code |-> ErrorCode(e), status |-> e.status]

\* handleError, lines 459-465: a 401 removes the token from both storages
ClearsToken(e) == e.kind # "client" /\ e.status = 401

\* getAllNotifications, lines 99-110: tap of a response that arrives at time t
TapList(resp, t) ==
    IF resp.success
    THEN /\ notificationCache' = resp.responseData
         /\ lastFetchTime' = t
         /\ notificationCount' =
              IF resp.unreadCount # 0 THEN resp.unreadCount
              ELSE UnreadIn(resp.responseData)
    ELSE UNCHANGED gwVars

\* updateNotificationInCache(id, {read: r})
updateNotificationInCache(cache, id, r) ==
    [k \in 1 .. Len(cache) |->
        IF cache[k].id = id THEN [cache[k] EXCEPT !.read = r] ELSE cache[k]]

incrementUnreadCount(c) == c + 1

decrementUnreadCount(c) == Max(0, c - 1)

\* the tap of a mutation whose request succeeded (lines 152-156, 172-176, 192-197,
\* 213-225, 243-255); allocateTicket, preferences, stats and search have none
TapMutation(op, arg) ==
    /\ UNCHANGED lastFetchTime
    /\ CASE op = "markRead" ->
              /\ notificationCache' = updateNotificationInCache(notificationCache, arg, TRUE)
              /\ notificationCount' = decrementUnreadCount(notificationCount)
         [] op = "markUnread" ->
              /\ notificationCache' = updateNotificationInCache(notificationCache, arg, FALSE)
              /\ notificationCount' = incrementUnreadCount(notificationCount)
         [] op = "markAllRead" ->
              /\ notificationCache' =
                   [k \in 1 .. Len(notificationCache) |->
                       [notificationCache[k] EXCEPT !.read = TRUE]]
              /\ notificationCount' = 0
         [] op = "delete" ->
              LET hit == SelectSeq(notificationCache, LAMBDA n : n.id = arg)
                  rest == SelectSeq(notificationCache, LAMBDA n : n.id # arg)
              IN  /\ notificationCache' = rest
                  /\ notificationCount' =
                       IF hit # <<>> /\ ~Head(hit).read
                       THEN decrementUnreadCount(notificationCount)
                       ELSE notificationCount
         [] op = "deleteMany" ->
              LET gone == SelectSeq(notificationCache, LAMBDA n : n.id \in arg)
                  rest == SelectSeq(notificationCache, LAMBDA n : n.id \notin arg)
              IN  /\ notificationCache' = rest
                  /\ notificationCount' = Max(0, notificationCount - UnreadIn(gone))
         [] OTHER -> UNCHANGED <<notificationCache, notificationCount>>

\* what a successful mutation request does to the server-side list
ServerApply(s, op, arg) ==
    CASE op = "markRead" -> [s EXCEPT ![arg] = IF @ = "absent" THEN @ ELSE "read"]
      [] op = "markUnread" -> [s EXCEPT ![arg] = IF @ = "absent" THEN @ ELSE "unread"]
      [] op = "markAllRead" -> [i \in Ids |-> IF s[i] = "absent" THEN "absent" ELSE "read"]
      [] op = "delete" -> [s EXCEPT ![arg] = "absent"]
      [] op = "deleteMany" -> [i \in Ids |-> IF i \in arg THEN "absent" ELSE s[i]]
      [] OTHER -> s

----------------------------------------------------------------------------
(* NotificationsComponent: the store and its pure helpers *)

Null == "null"

\* the lower-cased words the helpers look for that occur in a message
MessageWords(message) ==
    CASE message = "New ticket {7}" -> {"new ticket", "ticket"}
      [] message = "Payment due" -> {"payment"}
      [] message = "Ticket update" -> {"ticket"}
      [] message = "Support request {7}" -> {"support request"}
      [] OTHER -> {}

\* message?.toLowerCase().includes(word)
includes(message, word) == word \in MessageWords(message)

isTicketNotification(message) ==
    includes(message, "new ticket") \/ includes(message, "ticket")

determineNotificationType(n) ==
    IF includes(n.message, "ticket") THEN "ticket"
    ELSE IF includes(n.message, "payment") THEN "payment"
    ELSE IF includes(n.message, "user") THEN "user"
    ELSE "system"

determineNotificationPriority(n) ==
    IF includes(n.message, "urgent") \/ includes(n.message, "critical") THEN "urgent"
    ELSE IF includes(n.message, "important") \/ includes(n.message, "ticket") THEN "high"
    ELSE IF includes(n.message, "reminder") THEN "medium"
    ELSE "low"

\* {...a, ...b}: the fields of both objects, b's value where both have one
Spread(a, b) ==
    [f \in DOMAIN a \cup DOMAIN b |-> IF f \in DOMAIN b THEN b[f] ELSE a[f]]

\* a list item's id field when the payload has none (undefined, "" and 0 are
\* all falsy for the || of processNotifications)
NoId == 0

\* generateId(): `notification_${Date.now()}_${random}`, made for the k-th item
\* of a response; the random suffix makes two of them differ, and no number
\* the server uses for an id is one of them
generateId(k) == 0 - k

\* the object processNotifications makes of the k-th item of a response
Processed(n, k) ==
    Spread(n, [id |-> IF n.id = NoId THEN generateId(k) ELSE n.id,
               read |-> n.read,
               type |-> determineNotificationType(n),
               priority |-> determineNotificationPriority(n)])

\* Array.prototype.sort with (a, b) => date(b) - date(a): newest first, and
\* stable, so that of two items of one date the earlier of the array stays the
\* earlier; an item's place is one more than the number of items before it
SortByDate(seq) ==
    LET Before(j, k) ==
            \/ seq[j].date > seq[k].date
            \/ seq[j].date = seq[k].date /\ j < k
        place(k) == 1 + Cardinality({ j \in 1 .. Len(seq) : Before(j, k) })
    IN  [r \in 1 .. Len(seq) |-> seq[CHOOSE k \in 1 .. Len(seq) : place(k) = r]]

\* a normalization that would keep every item of the response
NormalizedUncut(data) ==
    SortByDate([k \in 1 .. Len(data) |-> Processed(data[k], k)])

\* a normalization that would keep the order of the response
NormalizedUnsorted(data) ==
    LET mapped == [k \in 1 .. Len(data) |-> Processed(data[k], k)]
    IN  SubSeq(mapped, 1, Min(Len(mapped), MAX_NOTIFICATIONS))

\* map, sort and slice of processNotifications
Normalized(data) ==
    LET mapped == [k \in 1 .. Len(data) |-> Processed(data[k], k)]
        sorted == SortByDate(mapped)
    IN  SubSeq(sorted, 1, Min(Len(sorted), MAX_NOTIFICATIONS))

\* a store that ignores what it is handed
updateStateNothing(st, partialState) == st

\* updateState(partialState): {...currentState, ...partialState}
updateState(st, partialState) ==
    [f \in DOMAIN st |-> IF f \in DOMAIN partialState THEN partialState[f] ELSE st[f]]

processNotifications(st, data) ==
    LET processedNotifications == Normalized(data)
    IN  updateState(st, [notifications |-> processedNotifications,
                         unreadCount |-> UnreadIn(processedNotifications),
                         error |-> Null, loading |-> FALSE])

getErrorMessage(e) ==
    IF e.status = 401 THEN "Session expired. Please login again."
    ELSE IF e.status = 403 THEN "Access denied"
    ELSE IF e.status = 0 THEN "Network error. Please check your connection."
    ELSE IF e.status >= 500 THEN "Server error. Please try again later."
    ELSE "Failed to load notifications"

InitialState ==
    [notifications |-> <<>>, loading |-> FALSE, error |-> Null, unreadCount |-> 0]

\* the ids of the notifications the store shows
ShownIds(st) == { st.notifications[k].id : k \in 1 .. Len(st.notifications) }

\* the store's notification with id i
Shown(st, i) ==
    LET k == CHOOSE j \in 1 .. Len(st.notifications) : st.notifications[j].id = i
    IN  st.notifications[k]

(* Requests in flight.  A list request is answered by the server (its data is   *)
(* the server-side list at that moment) and delivered later; overtaken tells    *)
(* that a list request issued after it has been applied to the store already,   *)
(* resync that the error callback of a mutation started it.                     *)
ListRequest(silent, resync) ==
    [kind |-> "list", id |-> 0, silent |-> silent, answered |-> FALSE,
     data |-> <<>>, overtaken |-> FALSE, resync |-> resync]

MutationRequest(kind, id) ==
    [kind |-> kind, id |-> id, silent |-> TRUE, answered |-> FALSE,
     data |-> <<>>, overtaken |-> FALSE, resync |-> FALSE]

Without(pend, k) == SubSeq(pend, 1, k - 1) \o SubSeq(pend, k + 1, Len(pend))

\* the errors a request of the component ends with, after the gateway's retries
SpecErrors == {TimeoutError}

(* fetchNotifications, the part after the subscriber has been called *)

\* a subscriber that would drop the response of a request that has been overtaken
ListNextFresh(st, req, resp) ==
    LET tapped == IF req.silent THEN st ELSE updateState(st, [loading |-> TRUE])
    IN  IF resp.success /\ ~req.overtaken
        THEN processNotifications(tapped, resp.responseData)
        ELSE tapped

\* tap (lines 539-543) and next (560-564) of a list response
ListNext(st, req, resp) ==
    LET tapped == IF req.silent THEN st ELSE updateState(st, [loading |-> TRUE])
    IN  IF resp.success THEN processNotifications(tapped, resp.responseData)
        ELSE tapped

\* a pipeline without the finalize
FinalizeKeep(st, silent) == st

\* finalize (lines 552-556), on completion and on unsubscription
Finalize(st, silent) ==
    IF silent THEN st ELSE updateState(st, [loading |-> FALSE])

\* a catchError that would empty the list as well
ListErrorClearing(st, e) ==
    updateState(st, [notifications |-> <<>>, unreadCount |-> 0,
                     error |-> getErrorMessage(handleError(e)), loading |-> FALSE])

\* catchError (lines 544-551); its replacement response has success false
ListError(st, e) ==
    updateState(st, [error |-> getErrorMessage(handleError(e)), loading |-> FALSE])

\* fetchNotifications(silent), token telling whether tokenService.getToken() returns
\* one: the new store, the requests in flight and how the call was answered
\* ("token": no token, "cache": at once by the gateway's cache, "network": a
\* request is in flight)
fetchNotifications(st, pend, silent, resync, token) ==
    IF ~token
    THEN [st |-> updateState(st, [error |-> "Authentication required",
                                  loading |-> FALSE]),
          pend |-> pend, via |-> "token"]
    ELSE LET begun == IF silent THEN st
                      ELSE updateState(st, [loading |-> TRUE, error |-> Null])
             req == ListRequest(silent, resync)
         IN  IF CacheAnswers(FALSE)
             THEN [st |-> Finalize(ListNext(begun, req, CachedResponse), silent),
                   pend |-> pend, via |-> "cache"]
             ELSE [st |-> begun, pend |-> Append(pend, req), via |-> "network"]

(* What a step did to the store, for the properties below: type names the      *)
(* handler, wrote tells that it called updateState, applied that it handed a   *)
(* list response to processNotifications (data: the response's items, truth:   *)
(* the server-side list the response stands for, stale and resync: the flags   *)
(* of its request), same that the step left the notifications and unreadCount  *)
(* of the store as they were, wasRead that markAsRead met a read notification, *)
(* wasLoading that the end of a list request met loading = true, id the        *)
(* notification a handler was called with, kind the gateway operation whose    *)
(* failure called the handler or the result the dialog closed with, agent that *)
(* authService.currentUser had an id when acceptTicket asked for it, silent    *)
(* that the step belongs to a fetchNotifications(true): its call or the end of *)
(* its request, via how a call of fetchNotifications was answered.             *)
NoEvent ==
    [type |-> "none", wrote |-> FALSE, applied |-> FALSE, stale |-> FALSE,
     resync |-> FALSE, wasRead |-> FALSE, same |-> FALSE, wasLoading |-> FALSE,
     data |-> <<>>, truth |-> <<>>, id |-> 0, kind |-> "none", agent |-> FALSE,
     silent |-> FALSE, via |-> "none"]

\* st and its successor hold the same notifications and unreadCount
SameList(st, after) ==
    /\ after.notifications = st.notifications
    /\ after.unreadCount = st.unreadCount

\* the event of a handler that wrote to the store
Wrote(type) == [NoEvent EXCEPT !.type = type, !.wrote = TRUE]

\* the event of a handler that called fetchNotifications(silent) with result r
Fetched(type, r, silent, resync) ==
    IF r.via = "cache"
    THEN [NoEvent EXCEPT !.type = type, !.wrote = TRUE, !.applied = TRUE,
                         !.resync = resync, !.data = notificationCache,
                         !.truth = ServerList(server), !.silent = silent,
                         !.via = r.via]
    ELSE [NoEvent EXCEPT !.type = type, !.wrote = (r.via = "token" \/ ~silent),
                         !.silent = silent, !.via = r.via]

\* no dialog is open; of an open one, id and read are those of its data, alias
\* tells that the data is the store's own object, isAccepting and
\* isTicketAccepted are its fields and timers counts the callbacks that its
\* accept() has handed to setTimeout and that have not run yet
NoDialog ==
    [open |-> FALSE, id |-> 0, read |-> FALSE, alias |-> FALSE, isAccepting |-> FALSE,
     isTicketAccepted |-> FALSE, timers |-> 0]

\* the state of the component after construction, before ngOnInit
CtlIdle ==
    /\ notificationState = InitialState
    /\ isShow = FALSE
    /\ stage = "constructed"
    /\ nextTick = 0
    /\ pending = <<>>
    /\ dialog = NoDialog
    /\ issued = 0
    /\ event = NoEvent

----------------------------------------------------------------------------
(* NotificationService on its own: one call at a time (GwSpec).  The clock   *)
(* is read between calls: it advances by PassSteps while no call is in       *)
(* progress, the retry delays of a call are recorded in call.delays.         *)

GwOps == {"list", "markRead", "markUnread", "markAllRead", "delete", "deleteMany",
          "allocateTicket", "getPreferences", "setPreferences", "stats", "search"}
\* the operations that take one notification id
IdOps == {"markRead", "markUnread", "delete"}
\* the operations whose tap rewrites the cache
CacheOps == {"markRead", "markUnread", "markAllRead", "delete", "deleteMany"}

\* how far the clock moves between two calls
PassSteps == {cacheTimeout \div 2, cacheTimeout}

\* the lists a 2xx answer of GET notification/all may carry
Payloads ==
    { ServerList([i \in Ids |-> IF i \in GwIds THEN s[i] ELSE "absent"]) :
        s \in [GwIds -> {"absent", "unread", "read"}] }

\* the last list response the service took from the network and stored, as long as
\* nothing else has rewritten the cache since
NoFetch == [valid |-> FALSE, items |-> <<>>, at |-> 0]

NoCall ==
    [op |-> "none", ids |-> {}, filter |-> FALSE, phase |-> "idle", retries |-> 0,
     net |-> 0, delays |-> <<>>, saw401 |-> FALSE]

NoLast ==
    [op |-> "none", filter |-> FALSE, result |-> "none", code |-> "", status |-> 0,
     net |-> 0, delays |-> <<>>, saw401 |-> FALSE, failure |-> "none",
     prev |-> "none", same |-> FALSE, tokenLeft |-> FALSE]

NewCall(op, ids, filter) ==
    [op |-> op, ids |-> ids, filter |-> filter, phase |-> "sent", retries |-> 0,
     net |-> 1, delays |-> <<>>, saw401 |-> FALSE]

\* the stored response as a call made at time t finds it: none, or one that came less
\* than cacheTimeout ago ("fresh") or longer ago ("stale"), with or without items
PrevAt(t) ==
    IF ~fetched.valid THEN "none"
    ELSE IF t - fetched.at < cacheTimeout
         THEN (IF fetched.items = <<>> THEN "fresh-empty" ELSE "fresh")
         ELSE "stale"

\* the record of a call that delivered `items` to its caller (the clock and the
\* stored response are those of the call's start: neither changes during a call)
Delivered(c, items) ==
    [op |-> c.op, filter |-> c.filter, result |-> "next", code |-> "", status |-> 0,
     net |-> c.net, delays |-> c.delays, saw401 |-> c.saw401,
     failure |-> "none", prev |-> PrevAt(now),
     same |-> fetched.valid /\ items = fetched.items,
     tokenLeft |-> localToken \/ sessionToken]

\* the record of a call whose last attempt failed with e: what handleError threw
Thrown(c, e) ==
    [op |-> c.op, filter |-> c.filter, result |-> "error", code |-> handleError(e).code,
     status |-> handleError(e).status, net |-> c.net,
     delays |-> c.delays, saw401 |-> c.saw401 \/ (e.kind = "http" /\ e.status = 401),
     failure |-> e.kind, prev |-> PrevAt(now), same |-> FALSE,
     tokenLeft |-> IF ClearsToken(e) THEN FALSE ELSE localToken \/ sessionToken]

\* the state after construction, the server holding the list s
StartWith(s) ==
    /\ server = s
    /\ now = StartNow
    /\ notificationCache = <<>>
    /\ lastFetchTime = 0
    /\ notificationCount = 0
    /\ localToken = TRUE
    /\ sessionToken = TRUE
    /\ call = NoCall
    /\ last = NoLast
    /\ fetched = NoFetch
    /\ CtlIdle

GwInit == StartWith([i \in Ids |-> "absent"])

\* getAllNotifications(headers, filter), subscribed at once
GwList(filter) ==
    /\ UNCHANGED ctlVars
    /\ call.op = "none"
    /\ IF CacheAnswers(filter)
       THEN /\ last' = Delivered([NewCall("list", {}, filter) EXCEPT !.net = 0],
                                 CachedResponse.responseData)
            /\ UNCHANGED call
       ELSE /\ call' = NewCall("list", {}, filter)
            /\ last' = NoLast
    /\ UNCHANGED <<server, now, gwVars, tokenVars, fetched>>

\* any other operation of the service, subscribed at once
GwMutate(op, ids) ==
    /\ UNCHANGED ctlVars
    /\ call.op = "none"
    /\ op \in GwOps \ {"list"}
    /\ op \in IdOps => Cardinality(ids) = 1
    /\ op \notin IdOps \cup {"deleteMany"} => ids = {}
    /\ op = "markUnread" => notificationCount < MaxCount
    /\ call' = NewCall(op, ids, FALSE)
    /\ last' = NoLast
    /\ UNCHANGED <<server, now, gwVars, tokenVars, fetched>>

\* the attempt in flight is answered 2xx
GwRespondWith(fields) ==
    /\ UNCHANGED ctlVars
    /\ call.phase = "sent"
    /\ IF call.op = "list"
       THEN \E data \in Payloads, ok \in BOOLEAN, c \in fields :
               LET resp == [success |-> ok, responseData |-> data, unreadCount |-> c]
               IN  /\ TapList(resp, now)
                   /\ last' = Delivered(call, resp.responseData)
                   /\ fetched' = IF resp.success
                                 THEN [valid |-> TRUE, items |-> resp.responseData,
                                       at |-> now]
                                 ELSE fetched
       ELSE LET arg == IF call.op \in IdOps THEN CHOOSE i \in call.ids : TRUE
                       ELSE call.ids
            IN  /\ TapMutation(call.op, arg)
                /\ last' = Delivered(call, <<>>)
                /\ fetched' = IF call.op \in CacheOps THEN NoFetch ELSE fetched
    /\ call' = NoCall
    /\ UNCHANGED <<server, now, tokenVars>>

\* the attempt in flight is answered 2xx, the unreadCount field of a list response
\* being absent or the number of items
GwRespond == GwRespondWith(CountFields)

\* the attempt in flight ends with error e: retry({count, delay}) resubscribes after
\* the delay, and once the count is used up catchError(handleError) throws
FailWith(e) ==
    /\ UNCHANGED ctlVars
    /\ IF call.retries < RetriesOf(call.op)
       THEN /\ call' = [call EXCEPT
                          !.phase = "backoff",
                          !.retries = @ + 1,
                          !.delays = Append(@, RetryDelay(call.op, call.retries + 1)),
                          !.saw401 = @ \/ (e.kind = "http" /\ e.status = 401)]
            /\ UNCHANGED <<last, tokenVars>>
       ELSE /\ call' = NoCall
            /\ last' = Thrown(call, e)
            /\ localToken' = (localToken /\ ~ClearsToken(e))
            /\ sessionToken' = (sessionToken /\ ~ClearsToken(e))
    /\ UNCHANGED <<server, now, gwVars, fetched>>

\* the attempt in flight is answered with an error status or fails client-side
GwFail(e) ==
    /\ call.phase = "sent"
    /\ FailWith(e)

\* timeout(this.timeout): no answer within 10 s of the attempt's request
GwTimeout ==
    /\ call.phase = "sent"
    /\ FailWith(TimeoutError)

\* the retry delay has elapsed: the request is issued again
GwRetry ==
    /\ UNCHANGED ctlVars
    /\ call.phase = "backoff"
    /\ call' = [call EXCEPT !.phase = "sent", !.net = @ + 1]
    /\ UNCHANGED <<server, now, gwVars, tokenVars, last, fetched>>

\* time passes between two calls
GwPass(d) ==
    /\ UNCHANGED ctlVars
    /\ call.op = "none"
    /\ now + d <= StartNow + GwHorizon
    /\ now' = now + d
    /\ UNCHANGED <<server, gwVars, tokenVars, callVars>>

\* a clearCache that would leave the cache and the time of its fetch alone
ClearedNothing(cache, lft) == [cache |-> cache, at |-> lft]

\* clearCache(), lines 367-370: what it makes of the cache and lastFetchTime
Cleared(cache, lft) == [cache |-> <<>>, at |-> 0]

\* clearCache(); the record tells how old the stored response was
clearCache ==
    /\ UNCHANGED ctlVars
    /\ call.op = "none"
    /\ notificationCache' = Cleared(notificationCache, lastFetchTime).cache
    /\ lastFetchTime' = Cleared(notificationCache, lastFetchTime).at
    /\ fetched' = NoFetch
    /\ last' = [NoLast EXCEPT !.op = "clearCache", !.prev = PrevAt(now)]
    /\ UNCHANGED <<server, now, notificationCount, tokenVars, call>>

\* refreshNotifications(), lines 375-378: clearCache(), then getAllNotifications()
\* without a filter, subscribed at once
refreshNotifications ==
    /\ UNCHANGED ctlVars
    /\ call.op = "none"
    /\ LET c == Cleared(notificationCache, lastFetchTime)
       IN  /\ notificationCache' = c.cache
           /\ lastFetchTime' = c.at
           /\ fetched' = NoFetch
           /\ IF CacheAnswersIn(c.cache, c.at, now, FALSE)
              THEN /\ last' = [Delivered([NewCall("list", {}, FALSE) EXCEPT !.net = 0],
                                         c.cache)
                                  EXCEPT !.prev = "none", !.same = FALSE]
                   /\ UNCHANGED call
              ELSE /\ call' = NewCall("list", {}, FALSE)
                   /\ last' = NoLast
    /\ UNCHANGED <<server, now, notificationCount, tokenVars>>

GwNext ==
    \/ \E f \in BOOLEAN : GwList(f)
    \/ \E op \in GwOps, ids \in SUBSET GwIds : GwMutate(op, ids)
    \/ GwRespond
    \/ \E e \in AttemptErrors : GwFail(e)
    \/ GwTimeout
    \/ GwRetry
    \/ \E d \in PassSteps : GwPass(d)
    \/ clearCache
    \/ refreshNotifications

GwSpec == GwInit /\ [][GwNext]_vars

\* the statuses a failed attempt is answered with in ErrSpec: those handleError
\* names, 0 (no response), 418 and 501
ErrStatuses == {0, 400, 401, 403, 404, 408, 418, 429, 500, 501, 502, 503, 504}

ErrErrors == { HttpError(st) : st \in ErrStatuses } \cup {ClientError}

(* ErrSpec: the calls of the service that fail, with every kind of failure of *)
(* an attempt; no attempt is answered 2xx, so the cache stays empty.          *)
ErrNext ==
    \/ \E f \in BOOLEAN : GwList(f)
    \/ \E op \in GwOps, ids \in SUBSET GwIds : GwMutate(op, ids)
    \/ \E e \in ErrErrors : GwFail(e)
    \/ GwTimeout
    \/ GwRetry

ErrSpec == GwInit /\ [][ErrNext]_vars

----------------------------------------------------------------------------
(* Claims about the gateway (GwSpec) *)

\* C3 as stated.  Gateway cache: after a successful list call, the item list empty
\* or not, and with nothing else rewriting the cache in between, an unfiltered list
\* call made less than cacheTimeout after that response is answered with the same
\* items and without a network request, and one made cacheTimeout or more after it
\* issues a network request.
C3_CacheAnyList ==
    (last.op = "list" /\ ~last.filter) =>
        /\ last.prev \in {"fresh", "fresh-empty"} =>
              (last.net = 0 /\ last.result = "next" /\ last.same)
        /\ last.prev = "stale" => last.net >= 1

\* C3 amended: the same for a successful list call whose item list is not empty.
C3_CacheNonEmptyList ==
    (last.op = "list" /\ ~last.filter) =>
        /\ last.prev = "fresh" =>
              (last.net = 0 /\ last.result = "next" /\ last.same)
        /\ last.prev = "stale" => last.net >= 1

\* an unfiltered list call was answered from a stored, non-empty response
C3_Witness ==
    /\ last.op = "list" /\ ~last.filter
    /\ last.prev = "fresh" /\ last.net = 0 /\ last.same
    /\ notificationCache # <<>>

\* C4.  Retry of the list call: at most maxRetries re-issues (maxRetries + 1 requests
\* in all), retry number k scheduled k seconds after the failure before it, and an
\* error reaches the caller only when the last of the maxRetries + 1 attempts failed.
C4_RetryBackoff ==
    /\ call.op = "list" =>
          /\ call.retries <= maxRetries
          /\ call.net <= maxRetries + 1
          /\ Len(call.delays) = call.retries
          /\ \A k \in 1 .. Len(call.delays) : call.delays[k] = k * 1000
    /\ last.op = "list" =>
          /\ last.net <= maxRetries + 1
          /\ \A k \in 1 .. Len(last.delays) : last.delays[k] = k * 1000
          /\ last.result = "error" =>
                /\ last.failure # "none"
                /\ last.net = maxRetries + 1
                /\ Len(last.delays) = maxRetries
          /\ last.result = "next" => (last.code = "" /\ last.failure = "none")

\* a list call gave up after its fourth attempt
C4_Witness ==
    /\ last.op = "list" /\ last.result = "error"
    /\ last.net = maxRetries + 1
    /\ last.delays = <<1000, 2000, 3000>>

\* C5.  A call of any operation that was answered 401 ends with the error UNAUTHORIZED
\* thrown to its caller and with no token left in localStorage or sessionStorage.
C5_Unauthorized ==
    last.saw401 =>
        (last.result = "error" /\ last.code = "UNAUTHORIZED" /\ ~last.tokenLeft)

\* C6.  A call whose request got no answer within the timeout throws an error of
\* code TIMEOUT.
C6_TimeoutCode ==
    (last.result = "error" /\ last.failure = "timeout") => last.code = "TIMEOUT"

----------------------------------------------------------------------------
(* NotificationsComponent with its dialog, the gateway's cache and the       *)
(* server (Spec).  A handler runs to completion in one step; a request in    *)
(* flight is answered and delivered in later steps, in any order.            *)

\* the store after markAsRead's map (lines 569-578)
markAsReadStore(st, id) ==
    LET updatedNotifications ==
            [k \in 1 .. Len(st.notifications) |->
                IF st.notifications[k].id = id
                THEN [st.notifications[k] EXCEPT !.read = ~@]
                ELSE st.notifications[k]]
    IN  updateState(st, [notifications |-> updatedNotifications,
                         unreadCount |-> UnreadIn(updatedNotifications)])

\* a markAllAsRead that would reset the count and leave the notifications
markAllAsReadCountOnly(st) == updateState(st, [unreadCount |-> 0])

\* the store after markAllAsRead's map (lines 593-598)
markAllAsReadStore(st) ==
    updateState(st, [notifications |->
                        [k \in 1 .. Len(st.notifications) |->
                            [st.notifications[k] EXCEPT !.read = TRUE]],
                     unreadCount |-> 0])

\* the store after deleteNotification's filter (lines 611-617)
deleteNotificationStore(st, id) ==
    LET updatedNotifications == SelectSeq(st.notifications, LAMBDA n : n.id # id)
    IN  updateState(st, [notifications |-> updatedNotifications,
                         unreadCount |-> UnreadIn(updatedNotifications)])

\* this.data.read = !this.data.read on the object the store holds as well
ToggledInPlace(st, id) ==
    [st EXCEPT !.notifications =
        [k \in 1 .. Len(st.notifications) |->
            IF st.notifications[k].id = id
            THEN [st.notifications[k] EXCEPT !.read = ~@]
            ELSE st.notifications[k]]]

\* the handler issues n more requests
Issue(n) == issued + n <= MaxRequests /\ issued' = issued + n

\* the requests a call of fetchNotifications with result r issues
Requests(r) == IF r.via = "network" THEN 1 ELSE 0

\* takeUntil(destroy$) has not ended the subscriptions of the component
Subscribed == stage # "destroyed"

ngOnInit ==
    /\ stage = "constructed"
    /\ \E token \in BOOLEAN :
       LET r == fetchNotifications(notificationState, pending, FALSE, FALSE, token)
       IN  /\ notificationState' = r.st
           /\ pending' = r.pend
           /\ Issue(Requests(r))
           /\ event' = Fetched("fetch", r, FALSE, FALSE)
    /\ stage' = "active"
    /\ nextTick' = now + REFRESH_INTERVAL
    /\ UNCHANGED <<server, now, gwVars, tokenVars, callVars, isShow, dialog>>

\* destroy$.next(): every subscription of the component ends; finalize of a
\* fetchNotifications() still subscribed runs, the list requests go on inside the
\* gateway (shareReplay), the other requests are left to the server
ngOnDestroy ==
    /\ UNCHANGED issued
    /\ stage = "active"
    /\ LET loud == \E k \in 1 .. Len(pending) :
                      /\ pending[k].kind = "list"
                      /\ ~pending[k].silent
       IN  /\ notificationState' = Finalize(notificationState, ~loud)
           /\ event' = [NoEvent EXCEPT !.type = "ngOnDestroy", !.wrote = loud,
                                        !.wasLoading = notificationState.loading]
    /\ stage' = "destroyed"
    /\ UNCHANGED <<server, now, gwVars, tokenVars, callVars, isShow, nextTick, pending,
                   dialog>>

toggleShow ==
    /\ stage = "active"
    /\ isShow' = ~isShow
    /\ IF ~isShow /\ Len(notificationState.notifications) = 0
       THEN /\ \E token \in BOOLEAN :
               LET r == fetchNotifications(notificationState, pending, FALSE, FALSE, token)
               IN  /\ notificationState' = r.st
                   /\ pending' = r.pend
                   /\ Issue(Requests(r))
                   /\ event' = Fetched("fetch", r, FALSE, FALSE)
       ELSE /\ event' = NoEvent
            /\ UNCHANGED <<notificationState, pending, issued>>
    /\ UNCHANGED <<server, now, gwVars, tokenVars, callVars, stage, nextTick, dialog>>

closeDropdown ==
    /\ UNCHANGED issued
    /\ stage = "active"
    /\ isShow
    /\ isShow' = FALSE
    /\ event' = NoEvent
    /\ UNCHANGED <<server, now, gwVars, tokenVars, callVars, notificationState, stage,
                   nextTick, pending, dialog>>

\* a timer that would refresh with the dropdown open as well
shouldRefreshAlways(show) == TRUE

\* switchMap of setupAutoRefresh (lines 760-763): refresh only if the dropdown
\* is closed
shouldRefresh(show) == ~show

\* interval(REFRESH_INTERVAL) emits (setupAutoRefresh)
Tick ==
    /\ stage = "active"
    /\ now = nextTick
    /\ nextTick' = nextTick + REFRESH_INTERVAL
    /\ IF shouldRefresh(isShow)
       THEN /\ \E token \in BOOLEAN :
               LET r == fetchNotifications(notificationState, pending, TRUE, FALSE, token)
               IN  /\ notificationState' = r.st
                   /\ pending' = r.pend
                   /\ Issue(Requests(r))
                   /\ event' = Fetched("fetch", r, TRUE, FALSE)
       ELSE /\ event' = NoEvent
            /\ UNCHANGED <<notificationState, pending, issued>>
    /\ UNCHANGED <<server, now, gwVars, tokenVars, callVars, isShow, stage, dialog>>

\* the clock advances, not past an emission of the interval
Pass(d) ==
    /\ UNCHANGED issued
    /\ now + d <= StartNow + SpecHorizon
    /\ stage # "constructed"
    /\ stage = "active" => now + d <= nextTick
    /\ now' = now + d
    /\ event' = NoEvent
    /\ UNCHANGED <<server, gwVars, tokenVars, callVars, notificationState, isShow, stage,
                   nextTick, pending, dialog>>

\* the server-side list changes without the component: notification i arrives,
\* is read or unread on another device, or is removed
ServerChange(i, v) ==
    /\ UNCHANGED issued
    /\ server[i] # v
    /\ server' = [server EXCEPT ![i] = v]
    /\ event' = NoEvent
    /\ UNCHANGED <<now, gwVars, tokenVars, callVars, notificationState, isShow, stage,
                   nextTick, pending, dialog>>

\* markAsRead(notification) on a notification the view shows
MarkAsReadStep(i) ==
    /\ Issue(1)
    /\ notificationState' = markAsReadStore(notificationState, i)
    /\ pending' = Append(pending, MutationRequest("markRead", i))
    /\ event' = [Wrote("markAsRead") EXCEPT
                   !.wasRead = Shown(notificationState, i).read,
                   !.same = SameList(notificationState, notificationState')]

markAsRead(i) ==
    /\ stage = "active"
    /\ ~dialog.open
    /\ i \in ShownIds(notificationState)
    /\ MarkAsReadStep(i)
    /\ UNCHANGED <<server, now, gwVars, tokenVars, callVars, isShow, stage, nextTick,
                   dialog>>

markAllAsRead ==
    /\ stage = "active"
    /\ Issue(1)
    /\ ~dialog.open
    /\ notificationState' = markAllAsReadStore(notificationState)
    /\ pending' = Append(pending, MutationRequest("markAllRead", 0))
    /\ event' = Wrote("markAllAsRead")
    /\ UNCHANGED <<server, now, gwVars, tokenVars, callVars, isShow, stage, nextTick,
                   dialog>>

deleteNotification(i) ==
    /\ stage = "active"
    /\ Issue(1)
    /\ ~dialog.open
    /\ i \in ShownIds(notificationState)
    /\ notificationState' = deleteNotificationStore(notificationState, i)
    /\ pending' = Append(pending, MutationRequest("delete", i))
    /\ event' = [Wrote("deleteNotification") EXCEPT !.id = i]
    /\ UNCHANGED <<server, now, gwVars, tokenVars, callVars, isShow, stage, nextTick,
                   dialog>>

\* openNotificationDialog(notification): the dialog's data is the object passed,
\* which is the store's own object unless markAsRead has just replaced it by a copy
openNotificationDialog(i) ==
    /\ stage = "active"
    /\ ~dialog.open
    /\ i \in ShownIds(notificationState)
    /\ LET n == Shown(notificationState, i)
       IN  /\ IF ~n.read
              THEN MarkAsReadStep(i)
              ELSE /\ event' = NoEvent
                   /\ UNCHANGED <<notificationState, pending, issued>>
           /\ dialog' = [NoDialog EXCEPT !.open = TRUE, !.id = i, !.read = n.read,
                                         !.alias = n.read]
    /\ UNCHANGED <<server, now, gwVars, tokenVars, callVars, isShow, stage, nextTick>>

\* NotificationViewDialog.toggleReadStatus
toggleReadStatus ==
    /\ UNCHANGED issued
    /\ dialog.open
    /\ dialog' = [dialog EXCEPT !.read = ~@]
    /\ notificationState' =
          IF dialog.alias THEN ToggledInPlace(notificationState, dialog.id)
          ELSE notificationState
    /\ event' = [NoEvent EXCEPT !.type = "toggleReadStatus"]
    /\ UNCHANGED <<server, now, gwVars, tokenVars, callVars, isShow, stage, nextTick,
                   pending>>

\* an acceptTicket without its two checks
acceptTicketUnchecked(ticketId, agent) ==
    /\ Issue(1)
    /\ pending' = Append(pending, MutationRequest("allocateTicket", ticketId))

\* acceptTicket(ticketId), agent telling whether authService.currentUser has an id
\* when it emits to the new subscriber; the subscription this leaves is followed
\* in UserSpec, where currentUser emits again
acceptTicket(ticketId, agent) ==
    IF ticketId # 0 /\ agent
    THEN /\ Issue(1)
         /\ pending' = Append(pending, MutationRequest("allocateTicket", ticketId))
    ELSE UNCHANGED <<pending, issued>>

\* a callback that would not look at the result the dialog closed with
AcceptsAnyResult(result, message) == isTicketNotification(message)

\* the condition of the afterClosed callback (line 656)
Accepts(result, message) == result = "accept" /\ isTicketNotification(message)

\* the dialog closes with result: afterClosed (lines 653-659)
DialogClose(result) ==
    /\ dialog.open
    /\ dialog' = NoDialog
    /\ IF /\ stage = "active"
          /\ Accepts(result, MessageOf(dialog.id))
       THEN \E agent \in BOOLEAN :
               /\ acceptTicket(TicketOf(dialog.id), agent)
               /\ event' = [NoEvent EXCEPT !.type = "acceptTicket", !.id = dialog.id,
                                           !.kind = result, !.agent = agent]
       ELSE /\ event' = [NoEvent EXCEPT !.type = "afterClosed", !.id = dialog.id,
                                        !.kind = result]
            /\ UNCHANGED <<pending, issued>>
    /\ UNCHANGED <<server, now, gwVars, tokenVars, callVars, notificationState, isShow,
                   stage, nextTick>>

\* the server answers list request k with its list of that moment
ListAnswer(k) ==
    /\ UNCHANGED issued
    /\ k \in 1 .. Len(pending)
    /\ pending[k].kind = "list"
    /\ ~pending[k].answered
    /\ pending' = [pending EXCEPT ![k].answered = TRUE, ![k].data = ServerList(server)]
    /\ event' = NoEvent
    /\ UNCHANGED <<server, now, gwVars, tokenVars, callVars, notificationState, isShow,
                   stage, nextTick, dialog>>

\* the answer of list request k arrives: tap of the gateway, then tap, next and
\* finalize of fetchNotifications if the component is still subscribed
DeliverList(k) ==
    /\ UNCHANGED issued
    /\ k \in 1 .. Len(pending)
    /\ pending[k].kind = "list"
    /\ pending[k].answered
    /\ LET req == pending[k]
           resp == [success |-> TRUE, responseData |-> req.data, unreadCount |-> 0]
           marked == [j \in 1 .. Len(pending) |->
                         IF j < k /\ pending[j].kind = "list" /\ Subscribed
                         THEN [pending[j] EXCEPT !.overtaken = TRUE]
                         ELSE pending[j]]
       IN  /\ TapList(resp, now)
           /\ pending' = Without(marked, k)
           /\ IF Subscribed
              THEN /\ notificationState' =
                        Finalize(ListNext(notificationState, req, resp), req.silent)
                   /\ dialog' = [dialog EXCEPT !.alias = FALSE]
                   /\ event' = [NoEvent EXCEPT !.type = "list", !.wrote = TRUE,
                                   !.applied = TRUE, !.stale = req.overtaken,
                                   !.resync = req.resync, !.data = req.data,
                                   !.truth = req.data,
                                   !.same = SameList(notificationState,
                                                     notificationState'),
                                   !.wasLoading = notificationState.loading,
                                   !.silent = req.silent]
              ELSE /\ event' = NoEvent
                   /\ UNCHANGED <<notificationState, dialog>>
    /\ UNCHANGED <<server, now, tokenVars, callVars, isShow, stage, nextTick>>

\* list request k is answered 2xx with success: false
DeliverListRefused(k) ==
    /\ UNCHANGED issued
    /\ k \in 1 .. Len(pending)
    /\ pending[k].kind = "list"
    /\ ~pending[k].answered
    /\ LET req == pending[k]
           resp == [success |-> FALSE, responseData |-> <<>>, unreadCount |-> 0]
       IN  /\ TapList(resp, now)
           /\ pending' = Without(pending, k)
           /\ IF Subscribed
              THEN /\ notificationState' =
                        Finalize(ListNext(notificationState, req, resp), req.silent)
                   /\ event' = [NoEvent EXCEPT !.type = "list", !.wrote = ~req.silent,
                                   !.wasLoading = notificationState.loading,
                                   !.silent = req.silent]
              ELSE /\ event' = NoEvent
                   /\ UNCHANGED notificationState
    /\ UNCHANGED <<server, now, tokenVars, callVars, isShow, stage, nextTick, dialog>>

\* list request k ends with error e once the gateway's retries are used up:
\* handleError, then catchError and finalize of fetchNotifications
DeliverListError(k, e) ==
    /\ UNCHANGED issued
    /\ k \in 1 .. Len(pending)
    /\ pending[k].kind = "list"
    /\ ~pending[k].answered
    /\ LET req == pending[k]
       IN  /\ pending' = Without(pending, k)
           /\ IF Subscribed
              THEN /\ notificationState' =
                        Finalize(ListError(notificationState, e), req.silent)
                   /\ event' = [Wrote("list") EXCEPT
                                   !.kind = "list",
                                   !.wasLoading = notificationState.loading,
                                   !.silent = req.silent]
              ELSE /\ event' = NoEvent
                   /\ UNCHANGED notificationState
    /\ localToken' = (localToken /\ ~ClearsToken(e))
    /\ sessionToken' = (sessionToken /\ ~ClearsToken(e))
    /\ UNCHANGED <<server, now, gwVars, callVars, isShow, stage, nextTick, dialog>>

\* the request of a mutation succeeds: the server applies it, the gateway's tap
\* runs if the pipeline is still subscribed, allocateTicket's next refreshes
DeliverMutation(k) ==
    /\ k \in 1 .. Len(pending)
    /\ pending[k].kind \notin {"list", "currentUser"}
    /\ LET req == pending[k]
       IN  /\ server' = ServerApply(server, req.kind, req.id)
           /\ IF Subscribed THEN TapMutation(req.kind, req.id) ELSE UNCHANGED gwVars
           /\ IF Subscribed /\ req.kind = "allocateTicket"
              THEN \E token \in BOOLEAN :
                   LET r == fetchNotifications(notificationState, Without(pending, k),
                                               TRUE, FALSE, token)
                   IN  /\ notificationState' = r.st
                       /\ pending' = r.pend
                       /\ Issue(Requests(r))
                       /\ event' = Fetched("fetch", r, TRUE, FALSE)
              ELSE /\ pending' = Without(pending, k)
                   /\ event' = NoEvent
                   /\ UNCHANGED <<notificationState, issued>>
    /\ UNCHANGED <<now, tokenVars, callVars, isShow, stage, nextTick, dialog>>

\* the request of a mutation fails with e: the error callbacks of markAsRead,
\* markAllAsRead and deleteNotification call fetchNotifications(true)
DeliverMutationError(k, e) ==
    /\ k \in 1 .. Len(pending)
    /\ pending[k].kind \notin {"list", "currentUser"}
    /\ LET req == pending[k]
       IN  IF Subscribed /\ req.kind \in {"markRead", "markAllRead", "delete"}
           THEN \E token \in BOOLEAN :
                LET r == fetchNotifications(notificationState, Without(pending, k),
                                            TRUE, TRUE, token)
                IN  /\ notificationState' = r.st
                    /\ pending' = r.pend
                    /\ Issue(Requests(r))
                    /\ event' = [Fetched("resync", r, TRUE, TRUE) EXCEPT
                                    !.id = req.id, !.kind = req.kind]
           ELSE /\ pending' = Without(pending, k)
                /\ event' = NoEvent
                /\ UNCHANGED <<notificationState, issued>>
    /\ localToken' = (localToken /\ ~ClearsToken(e))
    /\ sessionToken' = (sessionToken /\ ~ClearsToken(e))
    /\ UNCHANGED <<server, now, gwVars, callVars, isShow, stage, nextTick, dialog>>

\* a list request in flight is answered and delivered, or fails
ListSteps ==
    \/ \E k \in 1 .. Len(pending) : ListAnswer(k)
    \/ \E k \in 1 .. Len(pending) : DeliverList(k)
    \/ \E k \in 1 .. Len(pending) : DeliverListRefused(k)
    \/ \E k \in 1 .. Len(pending), e \in SpecErrors : DeliverListError(k, e)

ServerSteps == \E i \in LiveIds, v \in {"absent", "unread", "read"} : ServerChange(i, v)

\* notifications arrive and are removed
Arrivals == \E i \in LiveIds, v \in {"absent", "unread"} : ServerChange(i, v)

(* Spec: the store under the user's operations on the notifications and the   *)
(* dialog, all within one cacheTimeout of the component's start.              *)
Next ==
    \/ ngOnInit
    \/ ServerSteps
    \/ ListSteps
    \/ \E i \in LiveIds : markAsRead(i)
    \/ markAllAsRead
    \/ \E i \in LiveIds : deleteNotification(i)
    \/ \E i \in LiveIds : openNotificationDialog(i)
    \/ toggleReadStatus
    \/ \E result \in {"accept", "dismiss"} : DialogClose(result)
    \/ \E k \in 1 .. Len(pending) : DeliverMutation(k)
    \/ \E k \in 1 .. Len(pending), e \in SpecErrors : DeliverMutationError(k, e)

Spec == GwInit /\ [][Next]_vars

\* the state once the first refresh of ngOnInit has been answered with the list
\* of the server s and applied
Loaded(s) ==
    /\ server = s
    /\ now = StartNow
    /\ notificationCache = ServerList(s)
    /\ lastFetchTime = StartNow
    /\ notificationCount = UnreadIn(ServerList(s))
    /\ localToken = TRUE
    /\ sessionToken = TRUE
    /\ call = NoCall
    /\ last = NoLast
    /\ fetched = NoFetch
    /\ notificationState = processNotifications(InitialState, ServerList(s))
    /\ isShow = FALSE
    /\ stage = "active"
    /\ nextTick = StartNow + REFRESH_INTERVAL
    /\ pending = <<>>
    /\ dialog = NoDialog
    /\ issued = 0
    /\ event = NoEvent

StoreInit ==
    \E s \in [StoreIds -> {"absent", "unread", "read"}] :
        Loaded([i \in Ids |-> IF i \in StoreIds THEN s[i] ELSE "absent"])

(* StoreSpec: markAsRead, markAllAsRead and deleteNotification on a list that  *)
(* has been loaded, any list of the notifications 1..NumStore, with the        *)
(* requests they issue; the server changes by these requests only.            *)
StoreNext ==
    \/ \E i \in StoreIds : markAsRead(i)
    \/ markAllAsRead
    \/ \E i \in StoreIds : deleteNotification(i)
    \/ \E k \in 1 .. Len(pending) : DeliverMutation(k)
    \/ \E k \in 1 .. Len(pending), e \in SpecErrors : DeliverMutationError(k, e)
    \/ ListSteps

StoreSpec == StoreInit /\ [][StoreNext]_vars

\* the server holds notification i alone, read or unread
OnlyOne(i, v) == [j \in Ids |-> IF j = i THEN v ELSE "absent"]

DialogInit == \E i \in Ids, v \in {"unread", "read"} : Loaded(OnlyOne(i, v))

(* DialogSpec: the view dialog on a loaded list of one notification, of each   *)
(* kind of message, with the requests that opening and accepting issue; the   *)
(* refreshes their callbacks start are answered by the gateway's cache, which  *)
(* holds the loaded list.                                                      *)
DialogNext ==
    \/ \E i \in Ids : openNotificationDialog(i)
    \/ toggleReadStatus
    \/ \E result \in {"accept", "dismiss"} : DialogClose(result)
    \/ \E k \in 1 .. Len(pending) : DeliverMutation(k)
    \/ \E k \in 1 .. Len(pending), e \in SpecErrors : DeliverMutationError(k, e)

DialogSpec == DialogInit /\ [][DialogNext]_vars

(* LifeSpec: the life of the component and its refreshes (ngOnInit, the       *)
(* dropdown, the interval, ngOnDestroy) with the clock.                       *)
LifeNext ==
    \/ ngOnInit
    \/ ngOnDestroy
    \/ toggleShow
    \/ closeDropdown
    \/ Tick
    \/ Pass(REFRESH_INTERVAL)
    \/ Arrivals
    \/ ListSteps

LifeSpec == GwInit /\ [][LifeNext]_vars

\* a response, a refusal or the final error of request k is delivered
Completes(k) ==
    \/ DeliverList(k)
    \/ DeliverListRefused(k)
    \/ \E e \in SpecErrors : DeliverListError(k, e)

\* some request in flight ends
Delivery == \E k \in 1 .. Len(pending) : Completes(k)

\* the server-side lists LiveSpec starts with: none or all of LiveIds, unread
LiveServers ==
    { [i \in Ids |-> IF i \in S THEN "unread" ELSE "absent"] : S \in {{}, LiveIds} }

LiveInit == \E s \in LiveServers : StartWith(s)

LiveNext ==
    \/ ngOnInit
    \/ ngOnDestroy
    \/ toggleShow
    \/ closeDropdown
    \/ Tick
    \/ Pass(REFRESH_INTERVAL)
    \/ ListSteps

(* LiveSpec: the refreshes of the component against a server whose list stays  *)
(* as it is, where the requests in flight end (each is answered or times out): *)
(* while a request is in flight a delivery is due.                             *)
LiveSpec == LiveInit /\ [][LiveNext]_vars /\ WF_vars(Delivery)

----------------------------------------------------------------------------
(* Claims about the store and the dialog (Spec) *)

\* C1.  In every reachable state of the store unreadCount is the number of
\* notifications whose read flag is false, whatever refresh responses, markAsRead,
\* markAllAsRead, deleteNotification, openings of a notification and interactions
\* inside the view dialog came before.
C1_UnreadCountMatches ==
    notificationState.unreadCount = UnreadIn(notificationState.notifications)

\* C2.  markAsRead on a notification that is read already leaves the notifications
\* and unreadCount of the store as they were, and unreadCount is never negative.
C2_MarkAsReadIdempotent ==
    /\ (event.type = "markAsRead" /\ event.wasRead) => event.same
    /\ notificationState.unreadCount >= 0

\* C10.  When the request of markAsRead, markAllAsRead or deleteNotification has
\* failed and the silent refresh its error callback starts has been applied, the
\* notifications and unreadCount of the store are the normalized server-side list.
C10_ResyncRestoresServerList ==
    (event.applied /\ event.resync) =>
        /\ notificationState.notifications = Normalized(event.truth)
        /\ notificationState.unreadCount = UnreadIn(Normalized(event.truth))

----------------------------------------------------------------------------
(* Claims about the life of the component and its refreshes (LifeSpec, LiveSpec) *)

\* C7.  Loading never sticks: whenever loading is true the store reaches loading
\* false later on, given that every request in flight is answered or times out.
C7_LoadingClears ==
    (notificationState.loading = TRUE) ~> (notificationState.loading = FALSE)

\* the end of a list request (response, refusal, error or teardown) met loading
\* true and left it false
C7_Witness == event.wasLoading /\ ~notificationState.loading

\* C8.  Overlapping refreshes are not sequenced: every list response delivered to
\* the subscribed component is written to the store, also the response of a request
\* issued before one whose response has been applied already, so that the store
\* ends up with the older response's data.
C8_EveryResponseApplied ==
    event.applied =>
        /\ notificationState.notifications = Normalized(event.data)
        /\ notificationState.unreadCount = UnreadIn(Normalized(event.data))

\* the response of the refresh issued earlier has been applied after the response
\* of the refresh issued later and has replaced the list the store held
C8_Witness ==
    /\ event.applied /\ event.stale /\ ~event.same
    /\ notificationState.notifications = Normalized(event.data)

\* C9.  No operation writes to the store during or after ngOnDestroy: a state of the
\* destroyed component is never reached by a step that called updateState.
C9_NoWriteAfterDestroy == stage = "destroyed" => ~event.wrote

----------------------------------------------------------------------------
(* Claims about the operations of the user on the store (Spec, StoreSpec) *)

\* the number of list requests in flight
ListsIn(pend) == Len(SelectSeq(pend, LAMBDA r : r.kind = "list"))

\* C11.  deleteNotification(n) removes from the notifications the one entry whose
\* id is n.id and no other, lowers unreadCount by 1 if n was unread and leaves it
\* otherwise, and issues one delete request for n.id; when that request fails, the
\* error callback calls fetchNotifications(true) once: one more list request, a
\* silent one, is in flight, unless the cache answers at once or no token is left.
C11_DeleteNotification ==
    [][/\ event'.type = "deleteNotification" =>
            LET i == event'.id
                n == Shown(notificationState, i)
                before == notificationState.notifications
                after == notificationState'.notifications
            IN  /\ after = SelectSeq(before, LAMBDA m : m.id # i)
                /\ Len(after) = Len(before) - 1
                /\ notificationState'.unreadCount =
                      notificationState.unreadCount - (IF n.read THEN 0 ELSE 1)
                /\ pending' = Append(pending, MutationRequest("delete", i))
       /\ (event'.type = "resync" /\ event'.kind = "delete") =>
            \/ /\ ListsIn(pending') = ListsIn(pending) + 1
               /\ pending'[Len(pending')] = ListRequest(TRUE, TRUE)
               /\ Len(pending') = Len(pending)
            \/ /\ event'.applied
               /\ Len(pending') = Len(pending) - 1
            \/ /\ notificationState'.error = "Authentication required"
               /\ Len(pending') = Len(pending) - 1
      ]_vars

\* C12.  markAllAsRead on any store leaves unreadCount 0 and every notification
\* read, keeps the ids of the notifications and their order, and issues the
\* mark-all-read call once, a call the gateway sends as one request.
C12_MarkAllAsRead ==
    [][event'.type = "markAllAsRead" =>
            LET before == notificationState.notifications
                after == notificationState'.notifications
            IN  /\ notificationState'.unreadCount = 0
                /\ Len(after) = Len(before)
                /\ \A k \in 1 .. Len(after) :
                      after[k].read /\ after[k].id = before[k].id
                /\ pending' = Append(pending, MutationRequest("markAllRead", 0))
                /\ RetriesOf("markAllRead") = 0
      ]_vars

\* markAllAsRead has run on a store of read and unread notifications (the server
\* has not been told yet)
C12_Witness ==
    /\ event.type = "markAllAsRead"
    /\ Len(notificationState.notifications) >= 2
    /\ notificationState.unreadCount = 0
    /\ \E k \in 1 .. Len(notificationState.notifications) :
          server[notificationState.notifications[k].id] = "unread"
    /\ \E k \in 1 .. Len(notificationState.notifications) :
          server[notificationState.notifications[k].id] = "read"
    /\ \A k \in 1 .. Len(notificationState.notifications) :
          notificationState.notifications[k].read

----------------------------------------------------------------------------
(* Claims about the refreshes (LifeSpec) *)

\* C13.  A refresh whose gateway call fails leaves the notifications and
\* unreadCount of the store as they were and sets error to a message; the
\* notifications loaded before stay in the store next to the error.
C13_FailedRefreshKeepsList ==
    [][(event'.type = "list" /\ event'.kind = "list") =>
            /\ SameList(notificationState, notificationState')
            /\ notificationState'.error # Null
      ]_vars

\* a refresh has failed while the store held a notification
C13_Witness ==
    /\ event.type = "list" /\ event.kind = "list"
    /\ notificationState.error # Null
    /\ Len(notificationState.notifications) >= 1

\* C14.  Periodic refresh: an emission of the interval calls fetchNotifications
\* only if the dropdown is closed at that moment, and then silently (the list
\* request it puts in flight is a silent one and loading is not set); with the
\* dropdown open it leaves store and requests alone; once the component is
\* destroyed no emission is handled and no request is issued.
C14_PeriodicRefresh ==
    [][/\ (stage # "constructed" /\ nextTick' # nextTick) =>
            /\ stage = "active"
            /\ event'.type = "fetch" => ~isShow
            /\ isShow => UNCHANGED <<notificationState, pending, issued>>
            /\ Len(pending') > Len(pending) =>
                  /\ pending' = Append(pending, ListRequest(TRUE, FALSE))
                  /\ ~isShow
            /\ notificationState'.loading => notificationState.loading
       /\ stage = "destroyed" =>
            /\ nextTick' = nextTick
            /\ issued' = issued
            /\ Len(pending') <= Len(pending)
      ]_vars

\* an emission of the interval has put a silent list request in flight, the
\* dropdown being closed
C14_Witness ==
    /\ event.type = "fetch"
    /\ now > StartNow
    /\ nextTick = now + REFRESH_INTERVAL
    /\ ~isShow
    /\ pending # <<>>
    /\ pending[Len(pending)] = ListRequest(TRUE, FALSE)

\* C15.  A silent refresh never changes the loading flag: the call of
\* fetchNotifications(true) and the response, refusal or failure of its request
\* leave loading as it was, whatever other refresh is in flight.
C15_SilentKeepsLoading ==
    [][event'.silent => notificationState'.loading = notificationState.loading]_vars

----------------------------------------------------------------------------
(* Claims about the mutations of the gateway (GwSpec) *)

\* C16.  Gateway consistency without refetch: when the unread counter of the
\* service equals the number of unread items in its cache, it still does after a
\* successful markRead, markUnread, markAllRead, delete or deleteMany call, on any
\* ids (read already, unread already or not in the cache); hence after any
\* sequence of such calls.
C16_CounterMatchesCache ==
    [][(/\ call.op \in CacheOps
        /\ last'.result = "next"
        /\ notificationCount = UnreadIn(notificationCache)) =>
            notificationCount' = UnreadIn(notificationCache')
      ]_vars

\* the operations whose pipeline is timeout, tap (if any) and catchError
OneRequestOps == {"markRead", "markUnread", "markAllRead", "delete", "deleteMany",
                  "getPreferences", "setPreferences"}

\* C17 as stated.  Each call of markRead, markUnread, markAllRead, delete,
\* deleteMany, allocateTicket, getPreferences and setPreferences issues exactly
\* one network request, also when that request fails or times out.
C17_OneRequestPerCall ==
    /\ call.op \in OneRequestOps \cup {"allocateTicket"} => call.net = 1
    /\ last.op \in OneRequestOps \cup {"allocateTicket"} => last.net = 1

\* C17 amended: that holds for all of them but allocateTicket, which issues its
\* request again after a failure, up to allocateRetries times and without delay:
\* one request more than it saw failures before, and allocateRetries + 1 requests
\* when it ends with an error.
C17_OneRequestUnlessAllocate ==
    /\ call.op \in OneRequestOps => call.net = 1
    /\ last.op \in OneRequestOps => last.net = 1
    /\ call.op = "allocateTicket" =>
          (call.net <= allocateRetries + 1 /\ call.retries <= allocateRetries)
    /\ last.op = "allocateTicket" =>
          /\ last.net = Len(last.delays) + 1
          /\ last.net <= allocateRetries + 1
          /\ last.result = "error" => last.net = allocateRetries + 1

\* a call other than allocateTicket got no answer within the timeout and threw
\* after its one request
C17_Witness ==
    /\ last.op \in OneRequestOps
    /\ last.result = "error" /\ last.failure = "timeout"
    /\ last.net = 1

----------------------------------------------------------------------------
(* Claims about the view dialog and acceptTicket (DialogSpec) *)

\* the handlers of the component that write notifications to the store: the
\* refreshes (their call, when the cache answers, and their response),
\* markAsRead, markAllAsRead and deleteNotification
StoreWriters == {"fetch", "resync", "list", "markAsRead", "markAllAsRead",
                 "deleteNotification"}

\* C18.  Store single-writer discipline: the notifications the store holds are
\* changed by the operations of the component only (refresh, markAsRead,
\* markAllAsRead, deleteNotification); no step of the view dialog changes the read
\* flag or another field of a notification of the store.
C18_SingleWriter ==
    [][notificationState'.notifications # notificationState.notifications =>
            event'.type \in StoreWriters
      ]_vars

\* the number of allocateTicket requests in flight
AllocatesIn(pend) == Len(SelectSeq(pend, LAMBDA r : r.kind = "allocateTicket"))

\* C19.  openNotification calls allocateTicket only if the dialog closes with
\* 'accept' and the message of the opened notification is a ticket notification:
\* a step that issues an allocateTicket request is such a closing, and a closing
\* with another result or on another message issues no request at all.
C19_AllocateOnlyOnAccept ==
    [][/\ AllocatesIn(pending') > AllocatesIn(pending) =>
            /\ dialog.open /\ ~dialog'.open
            /\ event'.kind = "accept"
            /\ isTicketNotification(MessageOf(dialog.id))
       /\ (/\ dialog.open /\ ~dialog'.open
           /\ \/ event'.kind # "accept"
              \/ ~isTicketNotification(MessageOf(dialog.id))) =>
            UNCHANGED <<pending, issued>>
      ]_vars

\* the dialog of a ticket notification has closed with 'accept' and the
\* allocateTicket request for its ticket is in flight
C19_Witness ==
    /\ event.type = "acceptTicket" /\ event.kind = "accept"
    /\ isTicketNotification(MessageOf(event.id))
    /\ pending # <<>>
    /\ pending[Len(pending)] = MutationRequest("allocateTicket", TicketOf(event.id))

\* C20.  acceptTicket with a missing ticket id, or with a current user that has
\* no id, issues no allocateTicket request, starts no refresh, raises no error and
\* leaves the store (notifications, unreadCount, loading, error) as it was.
C20_AcceptTicketGuards ==
    [][(/\ event'.type = "acceptTicket"
        /\ (TicketOf(event'.id) = 0 \/ ~event'.agent)) =>
            UNCHANGED <<pending, issued, notificationState>>
      ]_vars

\* acceptTicket has been called for a ticket notification that carries no ticket
\* id, the current user having an id
C20_Witness ==
    /\ event.type = "acceptTicket"
    /\ isTicketNotification(MessageOf(event.id))
    /\ TicketOf(event.id) = 0
    /\ event.agent

\* C21.  The component treats a message as a ticket notification if and only if
\* its lower-cased text contains "ticket", "new ticket" or "support request": when
\* the dialog closes with 'accept', acceptTicket is called exactly for such a
\* message, and with a ticket id and a user id at hand that puts an allocateTicket
\* request in flight, also for a message that contains "support request" alone.
C21_TicketMessages ==
    [][(dialog.open /\ ~dialog'.open /\ event'.kind = "accept") =>
            LET message == MessageOf(dialog.id)
                ticket == \/ includes(message, "ticket")
                          \/ includes(message, "new ticket")
                          \/ includes(message, "support request")
            IN  /\ (event'.type = "acceptTicket") <=> ticket
                /\ (ticket /\ TicketOf(dialog.id) # 0 /\ event'.agent) =>
                      AllocatesIn(pending') = AllocatesIn(pending) + 1
      ]_vars

----------------------------------------------------------------------------
(* Claims about the failures of the gateway (ErrSpec) *)

\* the codes the classification names, 400 apart
NamedCode(status) ==
    CASE status = 401 -> "UNAUTHORIZED"
      [] status = 403 -> "FORBIDDEN"
      [] status = 404 -> "NOT_FOUND"
      [] status = 408 -> "TIMEOUT"
      [] status = 429 -> "RATE_LIMIT"
      [] status = 500 -> "SERVER_ERROR"
      [] status = 502 -> "BAD_GATEWAY"
      [] status = 503 -> "SERVICE_UNAVAILABLE"
      [] status = 504 -> "GATEWAY_TIMEOUT"
      [] OTHER -> "HTTP_" \o ToString(status)

----------------------------------------------------------------------------
(* NormSpec: the normalization of a list response. The component is active,   *)
(* its first list request is answered, and the answer carries any payload of  *)
(* RawPayloads: items without an id, with an id another item has as well,     *)
(* with dates in any order and equal dates, with and without a type and a     *)
(* priority of their own, and lists around MAX_NOTIFICATIONS items. The       *)
(* response is delivered and the store operations act on what it left.        *)

\* payload ids 1..NumRaw, and NoId for an item without one
NumRaw == 2

\* the longest of the short payloads
MaxRaw == 2

\* the long payloads have up to MAX_NOTIFICATIONS + Over items
Over == 1

RawDates == {10, 20}

Raw(i, dt) ==
    [id |-> i, read |-> FALSE, date |-> dt, message |-> MessageOf(i),
     tickets |-> TicketOf(i)]

\* the item with a type and a priority the server chose, neither of them what
\* the keywords of any message of MessageOf give
WithOwn(n) == Spread(n, [type |-> "user", priority |-> "urgent"])

RawItems ==
    LET plain == { Raw(i, dt) : i \in 0 .. NumRaw, dt \in RawDates }
    IN  plain \cup { WithOwn(n) : n \in plain }

ShortPayloads == UNION { [1 .. n -> RawItems] : n \in 0 .. MaxRaw }

\* dates that neither rise nor fall along the list, all different
LongDate(k) == (7 * k) % 53

LongList(n) == [k \in 1 .. n |-> Raw(k, LongDate(k))]

LongPayloads ==
    { LongList(n) : n \in MAX_NOTIFICATIONS - 1 .. MAX_NOTIFICATIONS + Over }

RawPayloads == ShortPayloads \cup LongPayloads

\* after ngOnInit (fetchNotifications() with an empty cache) and the server's
\* answer p to its request
Answered(p) ==
    /\ server = [i \in Ids |-> "absent"]
    /\ now = StartNow
    /\ notificationCache = <<>>
    /\ lastFetchTime = 0
    /\ notificationCount = 0
    /\ localToken = TRUE
    /\ sessionToken = TRUE
    /\ call = NoCall
    /\ last = NoLast
    /\ fetched = NoFetch
    /\ notificationState = updateState(InitialState, [loading |-> TRUE, error |-> Null])
    /\ isShow = FALSE
    /\ stage = "active"
    /\ nextTick = StartNow + REFRESH_INTERVAL
    /\ pending = <<[ListRequest(FALSE, FALSE) EXCEPT !.answered = TRUE, !.data = p]>>
    /\ dialog = NoDialog
    /\ issued = 1
    /\ event = NoEvent

NormInit == \E p \in RawPayloads : Answered(p)

NormNext ==
    \/ \E k \in 1 .. Len(pending) : DeliverList(k)
    \/ \E i \in ShownIds(notificationState) : markAsRead(i)
    \/ markAllAsRead
    \/ \E i \in ShownIds(notificationState) : deleteNotification(i)

NormSpec == NormInit /\ [][NormNext]_vars

\* item n of a response is one of the notifications of the list
Kept(n, k, list) == \E j \in 1 .. Len(list) : list[j] = Processed(n, k)

(* C23: the store never holds more than MAX_NOTIFICATIONS notifications; after *)
(* a refresh it holds min(length of the response, MAX_NOTIFICATIONS) of them,  *)
(* each item the refresh dropped is no newer than any it kept, and no other    *)
(* step makes the list longer.                                                 *)
C23_AtMostFiftyNewest ==
    [][LET list == notificationState'.notifications
           data == event'.data
       IN  /\ Len(list) <= MAX_NOTIFICATIONS
           /\ IF event'.applied
              THEN /\ Len(list) = Min(Len(data), MAX_NOTIFICATIONS)
                   /\ \A k \in 1 .. Len(data) :
                         \/ Kept(data[k], k, list)
                         \/ \A j \in 1 .. Len(list) : list[j].date >= data[k].date
              ELSE Len(list) <= Len(notificationState.notifications)
     ]_vars

C23_Witness ==
    /\ event.applied
    /\ Len(event.data) > MAX_NOTIFICATIONS
    /\ Len(notificationState.notifications) = MAX_NOTIFICATIONS
    /\ \E k \in 1 .. MAX_NOTIFICATIONS :
          ~Kept(event.data[k], k, notificationState.notifications)

\* newest first: each notification's date is no earlier than the next one's
ByDateDescending(list) ==
    \A k \in 1 .. Len(list) - 1 : list[k].date >= list[k + 1].date

(* C24: the notifications of the store are ordered by date, newest first, in   *)
(* every state: after every refresh, whatever the order of the response, and  *)
(* after markAsRead, markAllAsRead and deleteNotification.                     *)
C24_OrderedByDate == ByDateDescending(notificationState.notifications)

\* a response that was not in this order has been normalized, and a store
\* operation has acted on the list since
C24_Witness ==
    /\ ~ByDateDescending(notificationCache)
    /\ Len(notificationState.notifications) >= 2
    /\ event.type \in {"markAsRead", "markAllAsRead", "deleteNotification"}

\* field f of item n of a response, or the derived value if the item has none
OwnOr(n, f, derived) == IF f \in DOMAIN n THEN n[f] ELSE derived

(* C25: after a refresh each item of the response is in the store with the     *)
(* type and the priority the payload gave it, and with the ones derived from   *)
(* the keywords of its message only where the payload gave none (responses of  *)
(* at most MAX_NOTIFICATIONS items, of which the refresh drops none).          *)
C25_OwnTypeAndPriorityKept ==
    (event.applied /\ Len(event.data) <= MAX_NOTIFICATIONS) =>
        \A k \in 1 .. Len(event.data) :
            LET n == event.data[k]
                kept == Spread(Processed(n, k),
                               [type |-> OwnOr(n, "type", determineNotificationType(n)),
                                priority |-> OwnOr(n, "priority",
                                                   determineNotificationPriority(n))])
            IN  \E j \in 1 .. Len(notificationState.notifications) :
                    notificationState.notifications[j] = kept

(* C26: no two notifications of the store have the same id, in every state and *)
(* for every payload of the server, those that repeat an id or leave ids out   *)
(* included.                                                                   *)
C26_DistinctIds ==
    \A j, k \in 1 .. Len(notificationState.notifications) :
        notificationState.notifications[j].id = notificationState.notifications[k].id
            => j = k

----------------------------------------------------------------------------
(* MsgSpec: getMessage on its own. A message is a sequence of characters: a   *)
(* letter, a blank and the opening brace; the view calls getMessage with the  *)
(* message of a notification and shows what it returns.                       *)

\* the longest message
MaxLen == 4

Chars == {"a", " ", "{"}

RawMessages == UNION { [1 .. n -> Chars] : n \in 0 .. MaxLen }

\* 'No message'
NoMessage == <<"N", "o", " ", "m", "e", "s", "s", "a", "g", "e">>

\* data.split("{")[0]: the characters before the first brace, all of them if
\* there is none
splitFirst(data) ==
    LET braces == { k \in 1 .. Len(data) : data[k] = "{" }
    IN  IF braces = {} THEN data
        ELSE SubSeq(data, 1, (CHOOSE k \in braces : \A j \in braces : k <= j) - 1)

\* a trim that would leave the string as it is
trimNothing(str) == str

\* String.prototype.trim()
trim(str) ==
    LET solid == { k \in 1 .. Len(str) : str[k] # " " }
    IN  IF solid = {} THEN <<>>
        ELSE SubSeq(str, CHOOSE k \in solid : \A j \in solid : k <= j,
                         CHOOSE k \in solid : \A j \in solid : k >= j)

getMessage(data) ==
    IF data = <<>> THEN NoMessage
    ELSE LET cleanMessage == trim(splitFirst(data))
         IN  IF cleanMessage = <<>> THEN data ELSE cleanMessage

\* the view is about to show the message raw
Showing(raw) ==
    /\ server = [i \in Ids |-> "absent"]
    /\ now = StartNow
    /\ notificationCache = <<>>
    /\ lastFetchTime = 0
    /\ notificationCount = 0
    /\ localToken = TRUE
    /\ sessionToken = TRUE
    /\ call = NoCall
    /\ last = NoLast
    /\ fetched = NoFetch
    /\ notificationState = InitialState
    /\ isShow = TRUE
    /\ stage = "active"
    /\ nextTick = StartNow + REFRESH_INTERVAL
    /\ pending = <<>>
    /\ dialog = NoDialog
    /\ issued = 0
    /\ event = [NoEvent EXCEPT !.type = "message", !.data = raw]

MsgInit == \E raw \in RawMessages : Showing(raw)

\* the view calls getMessage(data): event.data is the argument, event.truth
\* what the call returned
ShowMessage ==
    /\ event.type = "message"
    /\ event' = [event EXCEPT !.type = "getMessage", !.truth = getMessage(event.data)]
    /\ UNCHANGED <<server, now, gwVars, tokenVars, callVars, notificationState, isShow,
                   stage, nextTick, pending, dialog, issued>>

MsgNext == ShowMessage

MsgSpec == MsgInit /\ [][MsgNext]_vars

\* the first j characters of data are its part before the first brace
PartBeforeBrace(data, j) ==
    /\ j \in 0 .. Len(data)
    /\ \A k \in 1 .. j : data[k] # "{"
    /\ j < Len(data) => data[j + 1] = "{"

\* result is the first j characters of data without the blanks around them
WithoutBlanksAround(data, j, result) ==
    \E a, b \in 1 .. j :
        /\ a <= b
        /\ result = SubSeq(data, a, b)
        /\ data[a] # " " /\ data[b] # " "
        /\ \A k \in 1 .. j : (k < a \/ k > b) => data[k] = " "

\* what the claim says getMessage returns for data
CleanOrRaw(data, result) ==
    \E j \in 0 .. Len(data) :
        /\ PartBeforeBrace(data, j)
        /\ IF \A k \in 1 .. j : data[k] = " "
           THEN result = data
           ELSE WithoutBlanksAround(data, j, result)

(* C28 as stated: for every raw message getMessage returns the part before the *)
(* first brace without the blanks around it, and the raw message if that part  *)
(* is empty.                                                                   *)
C28_CleanOrRawAlways ==
    event.type = "getMessage" => CleanOrRaw(event.data, event.truth)

(* C28: for a raw message that is not empty getMessage returns the part before *)
(* the first brace without the blanks around it, and the raw message if that   *)
(* part is empty; for the empty message it returns 'No message'.               *)
C28_CleanOrRaw ==
    event.type = "getMessage" =>
        IF event.data = <<>> THEN event.truth = NoMessage
        ELSE CleanOrRaw(event.data, event.truth)

\* "a {a" gives "a"
C28_Witness ==
    /\ event.type = "getMessage"
    /\ event.data = <<"a", " ", "{", "a">>
    /\ event.truth = <<"a">>

(* C29: an attempt of the list call that is answered 401, 403 or 404 ends the  *)
(* call: the error reaches the caller with that status and no further request  *)
(* is made for the call.                                                       *)
C29_NoRetryOfRefusals ==
    [][\A st \in {401, 403, 404} :
          (call.op = "list" /\ GwFail(HttpError(st))) =>
              /\ call'.op = "none"
              /\ last'.result = "error"
              /\ last'.status = st
              /\ last'.net = call.net
     ]_vars

----------------------------------------------------------------------------
(* CountSpec: the unread counter of the service, from its construction with    *)
(* any item 'notificationCount' in local storage, under list responses with    *)
(* any unreadCount field, updateNotificationCount and the calls that change    *)
(* the counter; no request fails.                                              *)

\* localStorage.getItem('notificationCount'): null, or a decimal numeral with
\* or without a minus sign
SavedCounts ==
    {[present |-> FALSE, negative |-> FALSE, digits |-> 0]} \cup
    { [present |-> TRUE, negative |-> neg, digits |-> n] :
          neg \in BOOLEAN, n \in 0 .. MaxCount }

\* parseInt(savedCount, 10) of such a numeral
parseInt(saved) == IF saved.negative THEN 0 - saved.digits ELSE saved.digits

\* loadInitialNotificationCount(), lines 386-392, on BehaviorSubject<number>(0)
loadInitialNotificationCount(saved) ==
    IF saved.present THEN parseInt(saved) ELSE 0

\* the service after its constructor has run
Constructed(saved) ==
    /\ server = [i \in Ids |-> "absent"]
    /\ now = StartNow
    /\ notificationCache = <<>>
    /\ lastFetchTime = 0
    /\ notificationCount = loadInitialNotificationCount(saved)
    /\ localToken = TRUE
    /\ sessionToken = TRUE
    /\ call = NoCall
    /\ last = NoLast
    /\ fetched = NoFetch
    /\ CtlIdle

CountInit == \E saved \in SavedCounts : Constructed(saved)

\* the unreadCount field of a list response: absent, or any number
AnyCountFields == (0 - 1) .. NumGw

CountArgs == (0 - 1) .. MaxCount

\* updateNotificationCount(count), lines 360-362
updateNotificationCount(count) ==
    /\ notificationCount' = Max(0, count)
    /\ UNCHANGED <<server, now, notificationCache, lastFetchTime, tokenVars, callVars,
                   ctlVars>>

CountOps == {"markRead", "markUnread", "delete", "deleteMany"}

CountNext ==
    \/ GwList(FALSE)
    \/ \E op \in CountOps, ids \in SUBSET GwIds : GwMutate(op, ids)
    \/ GwRespondWith(AnyCountFields)
    \/ \E count \in CountArgs : updateNotificationCount(count)

CountSpec == CountInit /\ [][CountNext]_vars

(* C30: the unread counter of the service is never negative, whatever local    *)
(* storage held at construction, whatever unreadCount the list responses       *)
(* carry, and whatever calls are made.                                         *)
C30_CounterNonNegative == notificationCount >= 0

----------------------------------------------------------------------------
(* C31: an emission of the interval that meets the dropdown closed and a token *)
(* puts a list request in flight; the gateway's cache answers none of them.    *)
(* (The emission without a token is the one that writes the store without      *)
(* applying a list.)                                                           *)
C31_TickGoesToNetwork ==
    [][(stage = "active" /\ nextTick' # nextTick /\ ~isShow) =>
            /\ ~event'.applied
            /\ ~event'.wrote => pending' = Append(pending, ListRequest(TRUE, FALSE))
     ]_vars

----------------------------------------------------------------------------
(* UserSpec: the subscription acceptTicket makes to authService.currentUser.   *)
(* The dialog of a ticket notification has closed with 'accept'; currentUser   *)
(* has emitted once, with or without an id, and emits again any number of      *)
(* times until the component is destroyed.                                     *)

\* the subscription of acceptTicket(ticketId) to currentUser, among the things
\* in flight; answered tells that its callback has called allocateTicketToAgent
Subscription(ticketId, called) ==
    [MutationRequest("currentUser", ticketId) EXCEPT !.answered = called]

\* the number of subscriptions whose callback has called allocateTicketToAgent
CalledIn(pend) ==
    Len(SelectSeq(pend, LAMBDA r : r.kind = "currentUser" /\ r.answered))

\* the callback of the subscription (lines 670-693) for a user with or without id
UserCallback(pend, k, agent) ==
    IF agent
    THEN Append([pend EXCEPT ![k].answered = TRUE],
                MutationRequest("allocateTicket", pend[k].id))
    ELSE pend

\* the requests in flight once the dialog of notification i has been opened and
\* has closed with 'accept': the markRead request of the opening if i was unread,
\* the subscription of acceptTicket and what its callback did with the value
\* currentUser emitted at once
AfterAccept(i, v, agent) ==
    LET opened == IF v = "unread" THEN <<MutationRequest("markRead", i)>> ELSE <<>>
    IN  UserCallback(Append(opened, Subscription(TicketOf(i), FALSE)),
                     Len(opened) + 1, agent)

\* the list of one ticket notification i is loaded, openNotificationDialog(i) has
\* run and the dialog has closed with 'accept'
Accepted(i, v, agent) ==
    /\ server = OnlyOne(i, v)
    /\ now = StartNow
    /\ notificationCache = ServerList(OnlyOne(i, v))
    /\ lastFetchTime = StartNow
    /\ notificationCount = UnreadIn(ServerList(OnlyOne(i, v)))
    /\ localToken = TRUE
    /\ sessionToken = TRUE
    /\ call = NoCall
    /\ last = NoLast
    /\ fetched = NoFetch
    /\ notificationState =
          LET loaded == processNotifications(InitialState, ServerList(OnlyOne(i, v)))
          IN  IF v = "unread" THEN markAsReadStore(loaded, i) ELSE loaded
    /\ isShow = TRUE
    /\ stage = "active"
    /\ nextTick = StartNow + REFRESH_INTERVAL
    /\ pending = AfterAccept(i, v, agent)
    /\ dialog = NoDialog
    /\ issued = Len(SelectSeq(AfterAccept(i, v, agent),
                              LAMBDA r : r.kind # "currentUser"))
    /\ event = [NoEvent EXCEPT !.type = "acceptTicket", !.id = i, !.kind = "accept",
                                !.agent = agent]

UserInit ==
    \E i \in Ids, v \in {"unread", "read"}, agent \in BOOLEAN :
        /\ Accepts("accept", MessageOf(i))
        /\ TicketOf(i) # 0
        /\ Accepted(i, v, agent)

\* authService.currentUser emits a user, with or without an id, to subscription k
currentUserEmits(k, agent) ==
    /\ k \in 1 .. Len(pending)
    /\ pending[k].kind = "currentUser"
    /\ Subscribed
    /\ pending' = UserCallback(pending, k, agent)
    /\ Issue(IF agent THEN 1 ELSE 0)
    /\ event' = [NoEvent EXCEPT !.type = "currentUser", !.id = pending[k].id,
                                !.agent = agent]
    /\ UNCHANGED <<server, now, gwVars, tokenVars, callVars, notificationState, isShow,
                   stage, nextTick, dialog>>

UserNext ==
    \/ \E k \in 1 .. Len(pending), agent \in BOOLEAN : currentUserEmits(k, agent)
    \/ \E k \in 1 .. Len(pending) : DeliverMutation(k)
    \/ \E k \in 1 .. Len(pending), e \in SpecErrors : DeliverMutationError(k, e)
    \/ toggleShow
    \/ ngOnDestroy

UserSpec == UserInit /\ [][UserNext]_vars

(* C32: one 'accept' outcome causes at most one allocateTicket call: a value   *)
(* of currentUser puts an allocateTicket request in flight only for a          *)
(* subscription whose callback has not called allocateTicketToAgent before.    *)
C32_OneAllocatePerAccept ==
    [][event'.type = "currentUser" =>
            AllocatesIn(pending') - AllocatesIn(pending) =
                CalledIn(pending') - CalledIn(pending)
     ]_vars

(* C33: the refresh that the success of allocateTicket starts is not answered  *)
(* from the gateway's cache: with a token at hand it puts a list request in    *)
(* flight. (The refresh without a token is the one that writes the store       *)
(* without applying a list.)                                                   *)
C33_RefreshAfterAllocateFetches ==
    [][(AllocatesIn(pending') < AllocatesIn(pending) /\ event'.type = "fetch") =>
            /\ ~event'.applied
            /\ ~event'.wrote => ListsIn(pending') = ListsIn(pending) + 1
     ]_vars

----------------------------------------------------------------------------
(* RaceSpec: markAsRead while a refresh is in flight. The list was loaded one  *)
(* cacheTimeout ago, the interval has just emitted and its silent list request *)
(* is under way; the server-side list changes by the requests of the component *)
(* only, so that the server never turns a read notification unread.            *)

Refreshing(s) ==
    /\ server = s
    /\ now = StartNow
    /\ notificationCache = ServerList(s)
    /\ lastFetchTime = StartNow - cacheTimeout
    /\ notificationCount = UnreadIn(ServerList(s))
    /\ localToken = TRUE
    /\ sessionToken = TRUE
    /\ call = NoCall
    /\ last = NoLast
    /\ fetched = NoFetch
    /\ notificationState = processNotifications(InitialState, ServerList(s))
    /\ isShow = FALSE
    /\ stage = "active"
    /\ nextTick = StartNow + REFRESH_INTERVAL
    /\ pending = <<ListRequest(TRUE, FALSE)>>
    /\ dialog = NoDialog
    /\ issued = 1
    /\ event = NoEvent

RaceInit ==
    \E s \in [StoreIds -> {"absent", "unread"}] :
        Refreshing([i \in Ids |-> IF i \in StoreIds THEN s[i] ELSE "absent"])

RaceNext ==
    \/ \E i \in StoreIds : markAsRead(i)
    \/ \E k \in 1 .. Len(pending) : DeliverMutation(k)
    \/ \E k \in 1 .. Len(pending), e \in SpecErrors : DeliverMutationError(k, e)
    \/ ListSteps

RaceSpec == RaceInit /\ [][RaceNext]_vars

\* the store shows notification i with read flag r
ShownAs(st, i, r) ==
    \E k \in 1 .. Len(st.notifications) :
        st.notifications[k].id = i /\ st.notifications[k].read = r

(* C34: once the server has taken the markRead of a notification (the gateway  *)
(* has confirmed it) and the store shows the notification read, no list        *)
(* response makes the store show it unread; the server reports it read in      *)
(* every list request issued from then on.                                     *)
C34_ConfirmedReadStays ==
    [][\A i \in StoreIds :
          (/\ event'.type = "list"
           /\ server[i] = "read"
           /\ ShownAs(notificationState, i, TRUE)) =>
              ~ShownAs(notificationState', i, FALSE)
     ]_vars

----------------------------------------------------------------------------
(* C35: a list response with success: false that reaches the component leaves *)
(* the notifications and unreadCount of the store and the gateway's cache as   *)
(* they were, and leaves an error in the store.                                *)
C35_RefusedResponseIsFailure ==
    [][(stage = "active" /\ \E k \in 1 .. Len(pending) : DeliverListRefused(k)) =>
            /\ SameList(notificationState, notificationState')
            /\ notificationCache' = notificationCache
            /\ notificationState'.error # Null
     ]_vars

----------------------------------------------------------------------------
(* C36: a fetchNotifications, silent or not, that gets no token from the token *)
(* service issues no gateway call, sets error to 'Authentication required' and *)
(* loading to false, and leaves notifications and unreadCount as they were.    *)
C36_NoTokenNoRequest ==
    [][event'.via = "token" =>
            /\ pending' = pending
            /\ issued' = issued
            /\ UNCHANGED <<gwVars, callVars>>
            /\ notificationState'.error = "Authentication required"
            /\ notificationState'.loading = FALSE
            /\ SameList(notificationState, notificationState')
     ]_vars

\* the interval's silent fetch got no token while the store held a list
C36_Witness ==
    /\ event.via = "token"
    /\ event.silent
    /\ Len(notificationState.notifications) > 0
    /\ notificationState.error = "Authentication required"

----------------------------------------------------------------------------
(* PollSpec: one subscriber of a polling stream of the service. stage names    *)
(* the stream subscribed to, nextTick the time of the timer's next emission;   *)
(* the calls are those of GwSpec, each ending before the next emission.        *)

PollStreams == {"getNotificationsWithUpdates", "subscribeToRealTimeNotifications"}

\* the period of the stream's timer: timer(0, 30000) and timer(0, 10000)
PeriodOf(stream) == IF stream = "getNotificationsWithUpdates" THEN 30000 ELSE 10000

\* the timer still runs: switchMap hands the error that the inner
\* getAllNotifications throws (catchError(this.handleError) rethrows it) to the
\* subscriber and unsubscribes from the timer; nothing in the stream catches it
Polling == stage \in PollStreams /\ last.result # "error"

\* switchMap(() => this.getAllNotifications(...)): the call of one emission
PollCall ==
    IF CacheAnswers(FALSE)
    THEN /\ last' = Delivered([NewCall("list", {}, FALSE) EXCEPT !.net = 0],
                              CachedResponse.responseData)
         /\ UNCHANGED call
    ELSE /\ call' = NewCall("list", {}, FALSE)
         /\ last' = NoLast

\* subscribe(): timer(0, period) emits at once
PollSubscribe(stream) ==
    /\ stage = "constructed"
    /\ call.op = "none"
    /\ stage' = stream
    /\ nextTick' = now + PeriodOf(stream)
    /\ PollCall
    /\ UNCHANGED <<server, now, gwVars, tokenVars, fetched, notificationState, isShow,
                   pending, dialog, issued, event>>

\* the timer emits again
PollTick ==
    /\ Polling
    /\ call.op = "none"
    /\ now = nextTick
    /\ nextTick' = nextTick + PeriodOf(stage)
    /\ PollCall
    /\ UNCHANGED <<server, now, gwVars, tokenVars, fetched, notificationState, isShow,
                   stage, pending, dialog, issued, event>>

\* time passes until the timer's next emission; a timer unsubscribed from emits
\* no more, and time passes on
PollPass ==
    /\ stage # "constructed"
    /\ call.op = "none"
    /\ now < nextTick
    /\ nextTick <= StartNow + GwHorizon
    /\ now' = nextTick
    /\ nextTick' = IF Polling THEN nextTick ELSE nextTick + PeriodOf(stage)
    /\ UNCHANGED <<server, gwVars, tokenVars, callVars, notificationState, isShow, stage,
                   pending, dialog, issued, event>>

PollNext ==
    \/ \E stream \in PollStreams : PollSubscribe(stream)
    \/ PollTick
    \/ PollPass
    \/ GwRespond
    \/ \E e \in AttemptErrors : GwFail(e)
    \/ GwTimeout
    \/ GwRetry

PollSpec == GwInit /\ [][PollNext]_vars

(* C37: a polling stream goes on polling while it is subscribed: the error of  *)
(* one emission's fetch does not stop the timer, so at the time of each later  *)
(* emission the stream fetches again.                                          *)
C37_PollingOutlivesErrors ==
    [][(stage \in PollStreams /\ Polling) => Polling']_vars

----------------------------------------------------------------------------
(* ViewSpec: one NotificationViewDialog from its opening on a loaded list of   *)
(* one notification: accept(), the callback it hands to setTimeout, the read   *)
(* toggle and a dismissal (disableClose is false). The record of the dialog    *)
(* outlives its closing, as the callback's this does.                          *)

\* a guard that lets every call through
BusyNever(d) == FALSE

\* the guard of accept(), lines 67-69
Busy(d) == d.isAccepting \/ d.isTicketAccepted

\* accept(): nothing if the guard holds, else isAccepting and a setTimeout
accept ==
    /\ dialog.open
    /\ IF Busy(dialog)
       THEN /\ dialog' = dialog
            /\ event' = [NoEvent EXCEPT !.type = "accept", !.id = dialog.id]
       ELSE /\ dialog.timers < MaxRequests
            /\ dialog' = [dialog EXCEPT !.isAccepting = TRUE, !.timers = @ + 1]
            /\ event' = [NoEvent EXCEPT !.type = "accept", !.id = dialog.id,
                                        !.wrote = TRUE]
    /\ UNCHANGED <<server, now, gwVars, tokenVars, callVars, notificationState, isShow,
                   stage, nextTick, pending, issued>>

\* the callback of setTimeout (lines 74-78) runs: the fields change and
\* dialogRef.close('accept') closes a dialog that is still open, whose
\* afterClosed callback (part_001, lines 653-659) runs with that result
acceptTimer ==
    /\ dialog.timers > 0
    /\ dialog' = [dialog EXCEPT !.isAccepting = FALSE, !.isTicketAccepted = TRUE,
                                !.timers = @ - 1, !.open = FALSE]
    /\ IF dialog.open /\ stage = "active" /\ Accepts("accept", MessageOf(dialog.id))
       THEN \E agent \in BOOLEAN :
               /\ acceptTicket(TicketOf(dialog.id), agent)
               /\ event' = [NoEvent EXCEPT !.type = "close", !.id = dialog.id,
                                           !.kind = "accept", !.agent = agent,
                                           !.wrote = dialog.open]
       ELSE /\ event' = [NoEvent EXCEPT !.type = "close", !.id = dialog.id,
                                        !.kind = "accept", !.wrote = dialog.open]
            /\ UNCHANGED <<pending, issued>>
    /\ UNCHANGED <<server, now, gwVars, tokenVars, callVars, notificationState, isShow,
                   stage, nextTick>>

\* the backdrop or the escape key closes the dialog without a result
dismiss ==
    /\ dialog.open
    /\ dialog' = [dialog EXCEPT !.open = FALSE]
    /\ event' = [NoEvent EXCEPT !.type = "close", !.id = dialog.id, !.kind = "dismiss",
                                !.wrote = TRUE]
    /\ UNCHANGED <<server, now, gwVars, tokenVars, callVars, notificationState, isShow,
                   stage, nextTick, pending, issued>>

ViewNext ==
    \/ \E i \in Ids : dialog = NoDialog /\ openNotificationDialog(i)
    \/ toggleReadStatus
    \/ accept
    \/ acceptTimer
    \/ dismiss
    \/ \E k \in 1 .. Len(pending) : DeliverMutation(k)

ViewSpec == DialogInit /\ [][ViewNext]_vars

\* idle, accepting or accepted, by the two fields of the dialog
PhaseOf(d) ==
    IF d.isTicketAccepted THEN "accepted"
    ELSE IF d.isAccepting THEN "accepting" ELSE "idle"

(* C38: a call of accept() while isAccepting or isTicketAccepted is true       *)
(* changes nothing; dialogRef.close('accept') is called at most once for a     *)
(* dialog, by the callback of the one accept() that passed the guard, and it   *)
(* closes the dialog if it is still open; the dialog goes from idle to         *)
(* accepting to accepted and never back.                                       *)
C38_AcceptClosesOnce ==
    [][/\ (event'.type = "accept" /\ (dialog.isAccepting \/ dialog.isTicketAccepted)) =>
              /\ dialog' = dialog
              /\ pending' = pending
       /\ (event'.type = "close" /\ event'.kind = "accept") =>
              /\ PhaseOf(dialog) = "accepting"
              /\ PhaseOf(dialog') = "accepted"
              /\ ~dialog'.open
              /\ dialog'.timers = 0
       /\ PhaseOf(dialog) = "idle" => PhaseOf(dialog') \in {"idle", "accepting"}
       /\ PhaseOf(dialog) = "accepting" => PhaseOf(dialog') \in {"accepting", "accepted"}
       /\ PhaseOf(dialog) = "accepted" => PhaseOf(dialog') = "accepted"
     ]_vars

\* accept() was called again while the first call's timer was pending, and
\* changed nothing
C38_Witness ==
    /\ event.type = "accept"
    /\ ~event.wrote
    /\ dialog.open
    /\ dialog.isAccepting
    /\ dialog.timers = 1

----------------------------------------------------------------------------
(* C39: every mark-read and delete request of the component carries an id the  *)
(* server issued: none carries an id that generateId made for a payload entry  *)
(* without one.                                                                *)
C39_MutationsCarryServerIds ==
    \A k \in 1 .. Len(pending) :
        pending[k].kind \in {"markRead", "delete"} =>
            \A j \in 1 .. MAX_NOTIFICATIONS + Over : pending[k].id # generateId(j)

============================================================================
